---- MODULE Spec2Model ----
(***************************************************************************)
(* Model of the ARM Swagger generator (main.ts): the temporal model        *)
(* (removalDate / atMost / inVersion), the merge primitives                *)
(* (concatObjects / concatRecords) and the definition extractor            *)
(* (definitionsFromFieldType).                                             *)
(*                                                                         *)
(* The functions of main.ts are pure; each is an operator here, and each   *)
(* specification draws the arguments of a call in its Init and applies the *)
(* function in an action, so that the arguments and the value returned (or *)
(* the error thrown) are the state the properties speak about.             *)
(*                                                                         *)
(* Representation of JavaScript values:                                    *)
(*   - an optional field that is absent (undefined) is the empty tuple;    *)
(*     a Version is the tuple <<year, month, day>>, an optional Set or     *)
(*     boolean that is present is the one-element tuple <<value>>;         *)
(*   - an object used as a dictionary (Record<string, T>) is the sequence  *)
(*     of its entries [key, value] in insertion order, which is the order  *)
(*     `for (const key in obj)` and JSON.stringify visit them in.          *)
(***************************************************************************)
EXTENDS Integers, Sequences, FiniteSets, TLC

VARIABLES
    versioned,        \* the Versioned argument `it` of inVersion
    targetVersion,    \* the TargetVersion argument [Version, VersionKind]
    inVersionResult,  \* outcome of the call inVersion(versioned, targetVersion)
    records,          \* the list of dictionaries passed to concatObjects / concatRecords
    concatObjectsResult,  \* outcome of the call concatObjects(records)
    concatRecordsResult,  \* outcome of the call concatRecords(records)
    ft,               \* the FieldType argument of definitionsFromFieldType
    definitionsResult, \* outcome of definitionsFromFieldType(ft, targetVersion)
    serializeFieldTypeResult,  \* outcome of the call serializeFieldType(ft)
    definitionInput,  \* the Definition argument of serializeDefinition
    serializeDefinitionResult, \* outcome of the call serializeDefinition(definition)
    commonTrackedProperties,   \* the module-level object commonTrackedProperties
    module,           \* the Module argument of serializeModule / generateSwagger
    serializeModuleResult,     \* outcome of the call serializeModule(module, targetVersion)
    versions,         \* the versions argument of generateSwagger
    position,         \* index of the next element versions.forEach visits
    directories,      \* directories ensureDirSync has made
    files,            \* the files on disk: path and content
    writes,           \* the calls of Deno.writeTextFileSync made, in order
    generateSwaggerResult,     \* outcome of the call generateSwagger(module, ...)
    mtInput,          \* the argument of serializeMutability: undefined or a Set<Mutability>
    serializeMutabilityResult, \* outcome of the call serializeMutability(mt)
    serializeVersionResult,    \* outcome of the call serializeVersion(targetVersion)
    resourceInput,    \* the Resource argument of serializeHandler / definitionsFromResource
    methodInput,      \* the Method argument of serializeHandler
    serializeHandlerResult,    \* outcome of the call serializeHandler(resource, method)
    definitionsFromResourceResult, \* outcome of definitionsFromResource(resource, targetVersion)
    typeGraph,        \* the Object types on the heap, each property type a scalar or a reference
    callStack,        \* the activations of definitionsFromFieldType, the innermost last
    extractionResult  \* outcome of the outermost call definitionsFromFieldType(ft, targetVersion)

versionVars == <<versioned, targetVersion, inVersionResult>>
mergeVars == <<records, concatObjectsResult, concatRecordsResult>>
definitionVars == <<ft, definitionsResult>>
serializeVars == <<serializeFieldTypeResult, definitionInput, serializeDefinitionResult>>
moduleVars == <<commonTrackedProperties, module, serializeModuleResult>>
generateVars == <<versions, position, directories, files, writes, generateSwaggerResult>>
mutabilityVars == <<mtInput, serializeMutabilityResult>>
versionTextVars == <<serializeVersionResult>>
resourceVars ==
    <<resourceInput, methodInput, serializeHandlerResult, definitionsFromResourceResult>>
graphVars == <<typeGraph, callStack, extractionResult>>
vars ==
    <<versionVars, mergeVars, definitionVars, serializeVars, moduleVars, generateVars,
      mutabilityVars, versionTextVars, resourceVars, graphVars>>

(***************************************************************************)
(* Outcome of a call: not made yet, returned a value, or threw Error.      *)
(***************************************************************************)
Pending == [state |-> "pending"]
Returned(v) == [state |-> "returned", value |-> v]
Thrown(k) == [state |-> "thrown", key |-> k]

Undefined == <<>>

(***************************************************************************)
(* Bounds of the temporal model.                                           *)
(***************************************************************************)
MinYear == 2020
YearSpan == 3
MaxMonth == 12
MaxDay == 2

Years == MinYear..(MinYear + YearSpan)
Months == 1..MaxMonth
Days == 1..MaxDay

Preview == "Preview"
GA == "GA"
VersionKind == {Preview, GA}

\* Target dates: every date of the modelled years.
TargetDates == {<<y, m, d>> : y \in Years, m \in Months, d \in Days}
\* Dates an entity is introduced on (previewVersion, gaVersion).
IntroDates == {<<y, m, MaxDay>> : y \in {MinYear, MinYear + 1}, m \in {1, MaxMonth}}
\* Dates an entity is deprecated on: every month and day of the first year.
DeprecationDates == {<<MinYear, m, d>> : m \in Months, d \in Days}

Versioned(p, g, d) == [previewVersion |-> p, gaVersion |-> g, deprecatedOn |-> d]

(***************************************************************************)
(* removalDate(it)                                                         *)
(***************************************************************************)
removalDateGaAsPreview(it) ==
    IF it.deprecatedOn = Undefined THEN Undefined
    ELSE LET year == it.deprecatedOn[1]
             month == it.deprecatedOn[2]
             day == it.deprecatedOn[3]
         IN  IF it.gaVersion # Undefined \/ it.previewVersion # Undefined
             THEN IF month > 5 THEN <<year + 1, month - 5, day>>
                               ELSE <<year, month + 6, day>>
             ELSE Undefined

removalDate(it) ==
    IF it.deprecatedOn = Undefined THEN Undefined
    ELSE LET year == it.deprecatedOn[1]
             month == it.deprecatedOn[2]
             day == it.deprecatedOn[3]
         IN  IF it.gaVersion # Undefined THEN <<year + 3, month, day>>
             ELSE IF it.previewVersion # Undefined
                  THEN IF month > 5 THEN <<year + 1, month - 5, day>>
                                    ELSE <<year, month + 6, day>>
                  ELSE Undefined

(***************************************************************************)
(* atMost(a, b)                                                            *)
(***************************************************************************)
atMostStrictDay(a, b) ==
    \/ a[1] < b[1]
    \/ (a[1] = b[1] /\ a[2] < b[2])
    \/ (a[1] = b[1] /\ a[2] = b[2] /\ a[3] < b[3])

atMost(a, b) ==
    \/ a[1] < b[1]
    \/ (a[1] = b[1] /\ a[2] < b[2])
    \/ (a[1] = b[1] /\ a[2] = b[2] /\ a[3] <= b[3])

(***************************************************************************)
(* inVersion(it, targetVersion)                                            *)
(***************************************************************************)
inVersionPreviewIgnoresGa(it, tv) ==
    LET version == tv[1]
        kind == tv[2]
        rd == removalDate(it)
    IN  IF rd # Undefined /\ atMost(rd, version)
        THEN FALSE
        ELSE IF kind = Preview
             THEN it.previewVersion # Undefined /\ atMost(it.previewVersion, version)
             ELSE it.gaVersion # Undefined /\ atMost(it.gaVersion, version)

inVersion(it, tv) ==
    LET version == tv[1]
        kind == tv[2]
        rd == removalDate(it)
    IN  IF rd # Undefined /\ atMost(rd, version)
        THEN FALSE
        ELSE IF kind = Preview
             THEN \/ (it.previewVersion # Undefined /\ atMost(it.previewVersion, version))
                  \/ (it.gaVersion # Undefined /\ atMost(it.gaVersion, version))
             ELSE it.gaVersion # Undefined /\ atMost(it.gaVersion, version)

(***************************************************************************)
(* Dictionaries: sequences of entries [key, value] with distinct keys.     *)
(***************************************************************************)
\* Body(value), with `value` computed once before Body uses it.
Bind(value, Body(_)) == CHOOSE result \in {Body(v) : v \in {value}} : TRUE

Entry(k, v) == [key |-> k, value |-> v]
Keys(d) == {d[i].key : i \in DOMAIN d}
hasOwnProperty(d, k) == k \in Keys(d)
Get(d, k) == d[CHOOSE i \in DOMAIN d : d[i].key = k].value
\* d[k] = v: a new key goes last, an existing key keeps its place.
Put(d, k, v) ==
    IF hasOwnProperty(d, k)
    THEN [i \in DOMAIN d |-> IF d[i].key = k THEN Entry(k, v) ELSE d[i]]
    ELSE Append(d, Entry(k, v))
\* The key-to-value mapping of a dictionary, its insertion order forgotten.
AsMap(d) == [k \in Keys(d) |-> Get(d, k)]

(***************************************************************************)
(* Mutability, field types, properties and definitions.                    *)
(***************************************************************************)
Create == "create"
Read == "read"
Write == "write"
Mutability == {Create, Read, Write}

\* A Set<Mutability> object: its members in insertion order (each once), and
\* which object it is.  The sets
\* main.ts exports are one object each; a set built by the caller with
\* `new Set(...)` is another object ("fresh"), whatever its members.
SetObject(identity, members) == [identity |-> identity, members |-> members]
NewSet(members) == SetObject("fresh", members)

\* The contents of the set, its insertion order forgotten.
Members(set) == {set.members[i] : i \in DOMAIN set.members}

ImmutableSecret == SetObject("ImmutableSecret", <<Create>>)
MutableSecret == SetObject("MutableSecret", <<Create, Write>>)
ReadOnly == SetObject("ReadOnly", <<Read>>)
Immutable == SetObject("Immutable", <<Create, Read>>)

BoolT == [kind |-> "bool"]
StringT == [kind |-> "string"]
Int32T == [kind |-> "int32"]
Int64T == [kind |-> "int64"]
FloatT == [kind |-> "float"]
EnumT(typeName, vs) == [kind |-> "enum", typeName |-> typeName, values |-> vs]
ArrayT(t) == [kind |-> "array", elementKind |-> t]
ObjectT(definitionName, description, properties) ==
    [kind |-> "object", definitionName |-> definitionName,
     description |-> description, properties |-> properties]
XRefT(target) == [kind |-> "xref", target |-> target]

\* interface Property extends Versioned; every optional field is present in
\* the record and holds Undefined when the object has no such field.
Property(description, type, mutability, required, lifetime) ==
    [description |-> description, type |-> type, mutability |-> mutability,
     required |-> required, previewVersion |-> lifetime.previewVersion,
     gaVersion |-> lifetime.gaVersion, deprecatedOn |-> lifetime.deprecatedOn]

Definition(description, properties) ==
    [description |-> description, properties |-> properties]

(***************************************************************************)
(* JSON.stringify on a Definition.  The text is modelled by a value that   *)
(* two Definitions share exactly when their texts are equal: objects keep  *)
(* the order of their keys, a field holding undefined is left out, and a   *)
(* Set, which has no enumerable properties, is written as the empty        *)
(* object {} whatever its members.  The fields of a Property literal are   *)
(* taken to be written in the order of the interface.                      *)
(***************************************************************************)
EmptyObjectText == <<{}>>

RECURSIVE stringifyFieldType(_)
RECURSIVE stringifyProperties(_)

stringifyProperty(p) ==
    [p EXCEPT !.type = stringifyFieldType(p.type),
              !.mutability = IF p.mutability = Undefined THEN Undefined
                             ELSE EmptyObjectText]

stringifyProperties(d) ==
    [i \in DOMAIN d |-> Entry(d[i].key, stringifyProperty(d[i].value))]

stringifyFieldType(t) ==
    IF t.kind = "array" THEN [t EXCEPT !.elementKind = stringifyFieldType(t.elementKind)]
    ELSE IF t.kind = "object" THEN [t EXCEPT !.properties = stringifyProperties(t.properties)]
    ELSE t

JSONstringify(definition) ==
    [definition EXCEPT !.properties = stringifyProperties(definition.properties)]

(***************************************************************************)
(* concatObjects(objs)                                                     *)
(***************************************************************************)
RECURSIVE concatObjectsFrom(_, _, _, _)
\* The forEach over objs at object i, its for-in loop at entry j.
concatObjectsFrom(objs, i, j, result) ==
    IF i > Len(objs) THEN Returned(result)
    ELSE IF j > Len(objs[i]) THEN concatObjectsFrom(objs, i + 1, 1, result)
    ELSE LET key == objs[i][j].key
         IN  IF hasOwnProperty(result, key)
             THEN Thrown(key)
             ELSE Bind(Put(result, key, objs[i][j].value),
                       LAMBDA next : concatObjectsFrom(objs, i, j + 1, next))

RECURSIVE concatObjectsLastWinsFrom(_, _, _, _)
concatObjectsLastWinsFrom(objs, i, j, result) ==
    IF i > Len(objs) THEN Returned(result)
    ELSE IF j > Len(objs[i]) THEN concatObjectsLastWinsFrom(objs, i + 1, 1, result)
    ELSE concatObjectsLastWinsFrom(objs, i, j + 1,
                                   Put(result, objs[i][j].key, objs[i][j].value))

concatObjectsLastWins(objs) == concatObjectsLastWinsFrom(objs, 1, 1, <<>>)

concatObjects(objs) == Bind(objs, LAMBDA array : concatObjectsFrom(array, 1, 1, <<>>))

(***************************************************************************)
(* concatRecords(records)                                                  *)
(***************************************************************************)
RECURSIVE concatRecordsFrom(_, _, _, _)
concatRecordsFrom(recs, i, j, result) ==
    IF i > Len(recs) THEN Returned(result)
    ELSE IF j > Len(recs[i]) THEN concatRecordsFrom(recs, i + 1, 1, result)
    ELSE LET key == recs[i][j].key
         IN  IF hasOwnProperty(result, key)
             THEN LET orig == JSONstringify(Get(result, key))
                      next == JSONstringify(recs[i][j].value)
                  IN  IF orig # next
                      THEN Thrown(key)
                      ELSE concatRecordsFrom(recs, i, j + 1, result)
             ELSE Bind(Put(result, key, recs[i][j].value),
                       LAMBDA next : concatRecordsFrom(recs, i, j + 1, next))

concatRecords(recs) == Bind(recs, LAMBDA array : concatRecordsFrom(array, 1, 1, <<>>))

(***************************************************************************)
(* Specification of the merge primitives: one call of each on a list of    *)
(* dictionaries of Definitions.                                            *)
(***************************************************************************)
MaxRecords == 2

AlwaysGA == [previewVersion |-> Undefined, gaVersion |-> <<MinYear, 1, 1>>,
             deprecatedOn |-> Undefined]

\* Definitions with the properties p and q, written in either order, p with
\* either mutability set: two of them are deep-equal exactly when p's sets
\* are equal, and have the same JSON text exactly when the orders are.
MergeValues ==
    {Definition("D", order) :
        order \in UNION {
            LET p == Entry("p", Property("P", StringT, <<mt>>, Undefined, AlwaysGA))
                q == Entry("q", Property("Q", StringT, Undefined, Undefined, AlwaysGA))
            IN  {<<p, q>>, <<q, p>>} : mt \in {ReadOnly, ImmutableSecret}}}

MergeKeys == {"a", "b"}

MergeDictionaries ==
    {<<>>}
    \cup {<<Entry(k, v)>> : k \in MergeKeys, v \in MergeValues}
    \cup {<<Entry(k[1], v[1]), Entry(k[2], v[2])>> :
            k \in {kk \in MergeKeys \X MergeKeys : kk[1] # kk[2]},
            v \in MergeValues \X MergeValues}

MergeIdle ==
    /\ records = <<>>
    /\ concatObjectsResult = Pending
    /\ concatRecordsResult = Pending

Unversioned == Versioned(Undefined, Undefined, Undefined)

\* The object literal that initializes the module-level constant
\* commonTrackedProperties.
InitialCommonTrackedProperties ==
    <<Entry("id", Property("The unique resource identifier of the ARM resource.",
                           StringT, <<ReadOnly>>, Undefined, Unversioned)),
      Entry("name", Property("The name of the ARM resource.",
                             StringT, <<Immutable>>, Undefined, Unversioned)),
      Entry("type", Property("The type of Azure resource.",
                             StringT, <<ReadOnly>>, Undefined, Unversioned)),
      Entry("location", Property("The location this resource exists in.",
                                 StringT, <<Immutable>>, Undefined, Unversioned))>>

Module(filename, title, description, namespace, resources) ==
    [filename |-> filename, title |-> title, description |-> description,
     namespace |-> namespace, resources |-> resources]

\* No call of serializeModule made yet.
ModuleIdle ==
    /\ commonTrackedProperties = InitialCommonTrackedProperties
    /\ module = Module("", "", "", "", <<>>)
    /\ serializeModuleResult = Pending

\* No call of generateSwagger made yet.
GenerateIdle ==
    /\ versions = <<>>
    /\ position = 1
    /\ directories = {}
    /\ files = {}
    /\ writes = <<>>
    /\ generateSwaggerResult = Pending

\* No call of serializeMutability made yet.
MutabilityIdle ==
    /\ mtInput = Undefined
    /\ serializeMutabilityResult = Pending

\* No call of serializeVersion made yet.
VersionTextIdle ==
    /\ serializeVersionResult = Pending

\* No call of serializeHandler or definitionsFromResource made yet.
ResourceIdle ==
    /\ resourceInput = Undefined
    /\ methodInput = Undefined
    /\ serializeHandlerResult = Pending
    /\ definitionsFromResourceResult = Pending

\* No call of definitionsFromFieldType on a heap of Object types made yet.
GraphIdle ==
    /\ typeGraph = <<>>
    /\ callStack = <<>>
    /\ extractionResult = Pending

SerializeIdle ==
    /\ serializeFieldTypeResult = Pending
    /\ definitionInput = Definition("", <<>>)
    /\ serializeDefinitionResult = Pending

DefinitionsIdle ==
    /\ ft = StringT
    /\ definitionsResult = Pending

VersionIdle ==
    /\ versioned = Versioned(Undefined, Undefined, Undefined)
    /\ targetVersion = <<<<MinYear, 1, 1>>, GA>>
    /\ inVersionResult = Pending

InitMerge ==
    /\ records \in UNION {[1..n -> MergeDictionaries] : n \in 0..MaxRecords}
    /\ concatObjectsResult = Pending
    /\ concatRecordsResult = Pending
    /\ VersionIdle
    /\ DefinitionsIdle
    /\ SerializeIdle
    /\ ModuleIdle
    /\ GenerateIdle
    /\ MutabilityIdle
    /\ VersionTextIdle
    /\ ResourceIdle
    /\ GraphIdle

ConcatObjects ==
    /\ concatObjectsResult = Pending
    /\ concatObjectsResult' = concatObjects(records)
    /\ UNCHANGED <<records, concatRecordsResult, versionVars, definitionVars, serializeVars,
                   moduleVars, generateVars,
                   mutabilityVars,
                   versionTextVars,
                   resourceVars,
                   graphVars>>

ConcatRecords ==
    /\ concatRecordsResult = Pending
    /\ concatRecordsResult' = concatRecords(records)
    /\ UNCHANGED <<records, concatObjectsResult, versionVars, definitionVars, serializeVars,
                   moduleVars, generateVars,
                   mutabilityVars,
                   versionTextVars,
                   resourceVars,
                   graphVars>>

NextMerge == ConcatObjects \/ ConcatRecords

SpecMerge == InitMerge /\ [][NextMerge]_vars

(***************************************************************************)
(* Properties of the merge primitives.                                     *)
(***************************************************************************)
\* Deep equality of Definitions: the same fields with deep-equal values, the
\* order in which an object's keys were written playing no part, and Sets
\* equal when they have the same members.
RECURSIVE CanonicalFieldType(_)
RECURSIVE CanonicalProperties(_)
CanonicalMutability(mt) == IF mt = Undefined THEN Undefined ELSE <<Members(mt[1])>>
CanonicalProperties(d) ==
    [k \in Keys(d) |-> [Get(d, k) EXCEPT !.type = CanonicalFieldType(Get(d, k).type),
                                         !.mutability = CanonicalMutability(Get(d, k).mutability)]]
CanonicalFieldType(t) ==
    IF t.kind = "array" THEN [t EXCEPT !.elementKind = CanonicalFieldType(t.elementKind)]
    ELSE IF t.kind = "object" THEN [t EXCEPT !.properties = CanonicalProperties(t.properties)]
    ELSE t
CanonicalDefinition(definition) ==
    [definition EXCEPT !.properties = CanonicalProperties(definition.properties)]
DeepEqual(a, b) == CanonicalDefinition(a) = CanonicalDefinition(b)

\* All entries of the input dictionaries, as (dictionary, position) pairs.
Occurrences(recs) == {<<i, j>> \in (DOMAIN recs) \X (1..2 * Cardinality(MergeKeys)) :
                        j \in DOMAIN recs[i]}
EntryAt(recs, o) == recs[o[1]][o[2]]
InputKeys(recs) == {EntryAt(recs, o).key : o \in Occurrences(recs)}
InputPairs(recs) == {<<EntryAt(recs, o).key, EntryAt(recs, o).value>> : o \in Occurrences(recs)}
Pairs(d) == {<<d[i].key, d[i].value>> : i \in DOMAIN d}

\* The occurrences of key k do not all hold deep-equal values.
Conflicting(recs, k) ==
    \E o1, o2 \in Occurrences(recs) :
        /\ EntryAt(recs, o1).key = k
        /\ EntryAt(recs, o2).key = k
        /\ ~DeepEqual(EntryAt(recs, o1).value, EntryAt(recs, o2).value)

\* C5: concatRecords succeeds iff every key occurring in more than one input
\* has deep-equal values in all its occurrences; on success the result is the
\* union, mapping each key to that value; on failure the error names a key
\* whose occurrences differ.
C5_ConcatRecordsDeepEqual ==
    /\ concatRecordsResult.state = "returned"
        <=> (concatRecordsResult # Pending
                /\ \A k \in InputKeys(records) : ~Conflicting(records, k))
    /\ concatRecordsResult.state = "returned"
        => /\ Keys(concatRecordsResult.value) = InputKeys(records)
           /\ \A pr \in InputPairs(records) :
                DeepEqual(Get(concatRecordsResult.value, pr[1]), pr[2])
    /\ concatRecordsResult.state = "thrown"
        => Conflicting(records, concatRecordsResult.key)

\* The first key, scanning the inputs left to right, that an earlier input
\* dictionary already holds.
Repeated(recs, o) ==
    \E e \in Occurrences(recs) : e[1] < o[1] /\ EntryAt(recs, e).key = EntryAt(recs, o).key
Before(o1, o2) == o1[1] < o2[1] \/ (o1[1] = o2[1] /\ o1[2] < o2[2])
FirstRepeated(recs) ==
    CHOOSE o \in Occurrences(recs) :
        /\ Repeated(recs, o)
        /\ \A e \in Occurrences(recs) : Repeated(recs, e) => (e = o \/ Before(o, e))

\* C6: concatObjects fails iff some key appears in more than one input
\* dictionary, naming the first such key met scanning left to right;
\* otherwise it returns exactly the union of the inputs' key-value pairs.
C6_ConcatObjectsDisjoint ==
    /\ concatObjectsResult.state = "thrown"
        <=> (concatObjectsResult # Pending
                /\ \E o \in Occurrences(records) : Repeated(records, o))
    /\ concatObjectsResult.state = "thrown"
        => concatObjectsResult.key = EntryAt(records, FirstRepeated(records)).key
    /\ concatObjectsResult.state = "returned"
        => /\ Pairs(concatObjectsResult.value) = InputPairs(records)
           /\ Len(concatObjectsResult.value) = Cardinality(InputKeys(records))

\* Two dictionaries share both keys, and the one repeated first is not the
\* first key of the first dictionary.
C6_Witness ==
    /\ concatObjectsResult.state = "thrown"
    /\ Len(records) = MaxRecords
    /\ \A i \in DOMAIN records : Keys(records[i]) = MergeKeys
    /\ concatObjectsResult.key # records[1][1].key

\* C7: both merge primitives are order-independent: on every permutation of
\* the input list they succeed iff they succeed on the list itself, and on
\* success return the same key-to-value mapping.
Permuted(recs) ==
    {[i \in DOMAIN recs |-> recs[f[i]]] : f \in Permutations(DOMAIN recs)}
SameOutcome(r1, r2) ==
    /\ r1.state = r2.state
    /\ r1.state = "returned"
        => /\ Keys(r1.value) = Keys(r2.value)
           /\ \A k \in Keys(r1.value) : DeepEqual(Get(r1.value, k), Get(r2.value, k))
SameOutcomeOpaque(r1, r2) ==
    /\ r1.state = r2.state
    /\ r1.state = "returned" => AsMap(r1.value) = AsMap(r2.value)
C7_MergeOrderIndependent ==
    /\ concatObjectsResult # Pending
        => \A perm \in Permuted(records) :
              SameOutcomeOpaque(concatObjects(perm), concatObjectsResult)
    /\ concatRecordsResult # Pending
        => \A perm \in Permuted(records) :
              SameOutcome(concatRecords(perm), concatRecordsResult)

(***************************************************************************)
(* definitionsFromFieldType(ft, targetVersion)                             *)
(***************************************************************************)
\* The property stored in the Definition for a visible property: the
\* property itself, or for an object type the literal built with the
\* reference, the description and the gaVersion / previewVersion that are set.
definitionPropertyDropsRequired(property) ==
    IF property.type.kind # "object"
    THEN [property EXCEPT !.required = Undefined]
    ELSE [description |-> property.description,
          type |-> XRefT(property.type.definitionName),
          mutability |-> Undefined,
          required |-> Undefined,
          previewVersion |-> property.previewVersion,
          gaVersion |-> property.gaVersion,
          deprecatedOn |-> Undefined]

definitionPropertyKeepsMutability(property) ==
    IF property.type.kind # "object"
    THEN property
    ELSE [property EXCEPT !.type = XRefT(property.type.definitionName),
                          !.required = Undefined,
                          !.deprecatedOn = Undefined]

definitionProperty(property) ==
    IF property.type.kind # "object"
    THEN property
    ELSE [description |-> property.description,
          type |-> XRefT(property.type.definitionName),
          mutability |-> Undefined,
          required |-> Undefined,
          previewVersion |-> property.previewVersion,
          gaVersion |-> property.gaVersion,
          deprecatedOn |-> Undefined]

RECURSIVE definitionsFromFieldType(_, _)
RECURSIVE definitionsFromProperties(_, _, _, _, _)
\* The loop `for (const key in ft.properties)` at entry j, with the
\* Definition and the dictionary built so far; at the end of the loop the
\* Definition is assigned under ft.definitionName.
definitionsFromProperties(type, tv, j, definition, definitions) ==
    IF j > Len(type.properties)
    THEN Returned(Put(definitions, type.definitionName, definition))
    ELSE LET key == type.properties[j].key
             property == type.properties[j].value
             added == [definition EXCEPT !.properties =
                          Put(definition.properties, key, definitionProperty(property))]
         IN  IF ~inVersion(property, tv)
             THEN definitionsFromProperties(type, tv, j + 1, definition, definitions)
             ELSE IF property.type.kind # "object"
             THEN definitionsFromProperties(type, tv, j + 1, added, definitions)
             ELSE LET nested == definitionsFromFieldType(property.type, tv)
                  IN  IF nested.state = "thrown" THEN nested
                      ELSE LET merged == concatRecords(<<definitions, nested.value>>)
                           IN  IF merged.state = "thrown" THEN merged
                               ELSE definitionsFromProperties(type, tv, j + 1, added,
                                                              merged.value)

\* The extractor without the final assignment of the root's Definition.
definitionsFromFieldTypeWithoutRoot(type, tv) ==
    IF type.kind # "object"
    THEN Returned(<<>>)
    ELSE LET r == definitionsFromProperties(type, tv, 1,
                                            Definition(type.description, <<>>), <<>>)
         IN  IF r.state = "thrown" THEN r
             ELSE Returned(SelectSeq(r.value, LAMBDA e : e.key # type.definitionName))

definitionsFromFieldType(type, tv) ==
    IF type.kind # "object"
    THEN Returned(<<>>)
    ELSE definitionsFromProperties(type, tv, 1, Definition(type.description, <<>>), <<>>)

(***************************************************************************)
(* Specification of the definition extractor: one call of                  *)
(* definitionsFromFieldType on a type of nesting depth up to two.          *)
(***************************************************************************)
MaxProperties == 2

PreviewOnly == [previewVersion |-> <<MinYear, 1, 1>>, gaVersion |-> Undefined,
                deprecatedOn |-> Undefined]
PropertyLifetimes == {AlwaysGA, PreviewOnly}
DefinitionTargets == {<<MinYear + 1, 1, 1>>} \X VersionKind

DefinitionNames == {"A", "B"}
Descriptions == {"X", "Y"}
PropertyKeys == [i \in 1..(MaxProperties + 1) |-> <<"p", "q", "r", "s">>[i]]

\* Objects with one scalar property m.
LeafObjects ==
    {ObjectT(n, d, <<Entry("m", Property("M", StringT, <<mt>>, Undefined, AlwaysGA))>>) :
        n \in DefinitionNames, d \in Descriptions, mt \in {ReadOnly, ImmutableSecret}}
\* Objects with one property c whose type is a leaf object.
MiddleObjects ==
    {ObjectT(n, "X", <<Entry("c", Property("C", leaf, Undefined, Undefined, AlwaysGA))>>) :
        n \in DefinitionNames,
        leaf \in {l \in LeafObjects : l.properties[1].value.mutability = <<ReadOnly>>}}
ArrayTypes ==
    {ArrayT(StringT)} \cup
    {ArrayT(l) : l \in {o \in LeafObjects :
                          /\ o.definitionName = "B"
                          /\ o.description = "X"
                          /\ o.properties[1].value.mutability = <<ReadOnly>>}}
PropertyTypes == {StringT} \cup ArrayTypes \cup LeafObjects \cup MiddleObjects

\* A lifetime with every date set, visible under both channels at the target.
DeprecatedLate == [previewVersion |-> <<MinYear, 1, 1>>, gaVersion |-> <<MinYear, 1, 1>>,
                   deprecatedOn |-> <<MinYear, 1, 1>>]

RootProperties ==
    {Property("P", t, Undefined, Undefined, lt) :
        t \in PropertyTypes, lt \in PropertyLifetimes}
    \cup {Property("P", StringT, <<ReadOnly>>, <<TRUE>>, lt) : lt \in PropertyLifetimes}
    \cup {Property("Q", l, <<ReadOnly>>, <<TRUE>>, DeprecatedLate) :
            l \in {o \in LeafObjects :
                      /\ o.definitionName = "B"
                      /\ o.description = "X"
                      /\ o.properties[1].value.mutability = <<ReadOnly>>}}

RootObjects ==
    {ObjectT(n, "R", [i \in 1..k |-> Entry(PropertyKeys[i], ps[i])]) :
        n \in DefinitionNames,
        k \in 0..MaxProperties,
        ps \in [1..MaxProperties -> RootProperties]}

InitDefinitions ==
    /\ ft \in RootObjects \cup {StringT} \cup ArrayTypes
    /\ targetVersion \in DefinitionTargets
    /\ definitionsResult = Pending
    /\ versioned = Versioned(Undefined, Undefined, Undefined)
    /\ inVersionResult = Pending
    /\ MergeIdle
    /\ SerializeIdle
    /\ ModuleIdle
    /\ GenerateIdle
    /\ MutabilityIdle
    /\ VersionTextIdle
    /\ ResourceIdle
    /\ GraphIdle

DefinitionsFromFieldType ==
    /\ definitionsResult = Pending
    /\ definitionsResult' = definitionsFromFieldType(ft, targetVersion)
    /\ UNCHANGED <<ft, versionVars, mergeVars, serializeVars,
                   moduleVars, generateVars,
                   mutabilityVars,
                   versionTextVars,
                   resourceVars,
                   graphVars>>

NextDefinitions == DefinitionsFromFieldType

SpecDefinitions == InitDefinitions /\ [][NextDefinitions]_vars

(***************************************************************************)
(* Properties of the definition extractor.                                 *)
(***************************************************************************)
VisibleEntries(type, tv) ==
    {i \in DOMAIN type.properties : inVersion(type.properties[i].value, tv)}

\* The Object types reachable from a type through visible properties whose
\* type is an Object, the type itself included.
RECURSIVE ReachableObjects(_, _)
ReachableObjects(type, tv) ==
    IF type.kind # "object" THEN {}
    ELSE {type} \cup UNION {ReachableObjects(type.properties[i].value.type, tv) :
                              i \in VisibleEntries(type, tv)}

\* The reference that stands for a property of Object type.
Reference(property) ==
    [description |-> property.description,
     type |-> [kind |-> "xref", target |-> property.type.definitionName],
     mutability |-> Undefined, required |-> Undefined,
     previewVersion |-> property.previewVersion, gaVersion |-> property.gaVersion,
     deprecatedOn |-> Undefined]

\* The content of the Definition an Object type lowers to, as a mapping from
\* the names of its visible properties.
LoweredContent(type, tv) ==
    [description |-> type.description,
     properties |->
        [k \in {type.properties[i].key : i \in VisibleEntries(type, tv)} |->
            LET property == Get(type.properties, k)
            IN  IF property.type.kind = "object"
                THEN Reference(property)
                ELSE [property EXCEPT !.type = CanonicalFieldType(property.type),
                                      !.mutability = CanonicalMutability(property.mutability)]]]

\* Names carried by two reachable Object types that lower to different content.
ClashingNames(type, tv) ==
    {o1.definitionName : o1 \in {o \in ReachableObjects(type, tv) :
        \E o2 \in ReachableObjects(type, tv) :
            /\ o2.definitionName = o.definitionName
            /\ LoweredContent(o2, tv) # LoweredContent(o, tv)}}

\* C8: whenever two Object types reachable from the root through visible
\* properties carry the same definitionName but lower to Definitions with
\* different content, definitionsFromFieldType fails with an error naming
\* such a definitionName.
C8_ClashingDefinitionsRejected ==
    (definitionsResult # Pending /\ ClashingNames(ft, targetVersion) # {})
        => /\ definitionsResult.state = "thrown"
           /\ definitionsResult.key \in ClashingNames(ft, targetVersion)

\* The Object types that are the type of several visible properties of the root.
SharedNestedObjects(type, tv) ==
    {n \in {type.properties[i].value.type : i \in VisibleEntries(type, tv)} :
        /\ n.kind = "object"
        /\ Cardinality({i \in VisibleEntries(type, tv) :
                            type.properties[i].value.type = n}) > 1}

\* C9: when the same nested Object type is the type of several visible
\* properties of an Object, the result holds the Definition of the nested
\* type under its definitionName, each of those properties is in the parent
\* Definition an XRef with that target, and only Object types reachable
\* through visible properties have a Definition in the result.
C9_SharedNestedObjectDefinedOnce ==
    (definitionsResult.state = "returned" /\ ft.kind = "object")
        => /\ \A n \in SharedNestedObjects(ft, targetVersion) :
                /\ hasOwnProperty(definitionsResult.value, n.definitionName)
                /\ CanonicalDefinition(Get(definitionsResult.value, n.definitionName))
                       = LoweredContent(n, targetVersion)
                /\ \A i \in VisibleEntries(ft, targetVersion) :
                      ft.properties[i].value.type = n
                        => Get(Get(definitionsResult.value, ft.definitionName).properties,
                               ft.properties[i].key).type
                             = [kind |-> "xref", target |-> n.definitionName]
           /\ Keys(definitionsResult.value)
                = {o.definitionName : o \in ReachableObjects(ft, targetVersion)}

\* C10: the Definition stored under the root's definitionName has exactly
\* the names of the root's properties that are visible under the target
\* version, and every visible property whose type is not an Object is the
\* input property unchanged.
C10_RootDefinitionVisibleProperties ==
    (definitionsResult.state = "returned" /\ ft.kind = "object")
        => /\ hasOwnProperty(definitionsResult.value, ft.definitionName)
           /\ LET stored == Get(definitionsResult.value, ft.definitionName).properties
              IN  /\ Keys(stored) = {ft.properties[i].key :
                                        i \in {j \in DOMAIN ft.properties :
                                            inVersion(ft.properties[j].value, targetVersion)}}
                  /\ Len(stored) = Cardinality(Keys(stored))
                  /\ \A i \in VisibleEntries(ft, targetVersion) :
                        ft.properties[i].value.type.kind # "object"
                          => Get(stored, ft.properties[i].key) = ft.properties[i].value

\* A root with a property that is dropped and a visible scalar property that
\* carries a mutability set and the required flag.
C10_Witness ==
    /\ definitionsResult.state = "returned"
    /\ ft.kind = "object"
    /\ Len(ft.properties) = MaxProperties
    /\ \E i \in DOMAIN ft.properties : ~inVersion(ft.properties[i].value, targetVersion)
    /\ \E i \in DOMAIN ft.properties :
          /\ inVersion(ft.properties[i].value, targetVersion)
          /\ ft.properties[i].value.required = <<TRUE>>
          /\ ft.properties[i].value.mutability # Undefined
          /\ hasOwnProperty(Get(definitionsResult.value, ft.definitionName).properties,
                            ft.properties[i].key)

\* C11: every visible property whose type is an Object N is stored in the
\* parent Definition with type XRef(N.definitionName), its description, its
\* gaVersion and previewVersion when set, and nothing else: mutability, the
\* required flag and deprecatedOn are not carried over.
C11_ObjectPropertyBecomesReference ==
    (definitionsResult.state = "returned" /\ ft.kind = "object")
        => \A i \in VisibleEntries(ft, targetVersion) :
              ft.properties[i].value.type.kind = "object"
                => Get(Get(definitionsResult.value, ft.definitionName).properties,
                       ft.properties[i].key)
                     = Reference(ft.properties[i].value)

\* A visible property of Object type with every optional field set.
C11_Witness ==
    /\ definitionsResult.state = "returned"
    /\ ft.kind = "object"
    /\ \E i \in VisibleEntries(ft, targetVersion) :
          LET property == ft.properties[i].value
          IN  /\ property.type.kind = "object"
              /\ property.mutability # Undefined
              /\ property.required # Undefined
              /\ property.deprecatedOn # Undefined
              /\ property.gaVersion # Undefined
              /\ property.previewVersion # Undefined
              /\ Get(Get(definitionsResult.value, ft.definitionName).properties,
                     ft.properties[i].key).gaVersion = property.gaVersion

\* C12: definitionsFromFieldType returns the empty dictionary for every
\* input that is not an Object; whenever it returns on an Object, the result
\* maps the root's definitionName to the Definition built from the root: its
\* description and its visible properties.
C12_RootDefinitionAlwaysPresent ==
    /\ (definitionsResult # Pending /\ ft.kind # "object")
        => definitionsResult = Returned(<<>>)
    /\ (definitionsResult.state = "returned" /\ ft.kind = "object")
        => /\ hasOwnProperty(definitionsResult.value, ft.definitionName)
           /\ CanonicalDefinition(Get(definitionsResult.value, ft.definitionName))
                = LoweredContent(ft, targetVersion)

\* A root whose nested object carries the root's own definitionName.
C12_Witness ==
    /\ definitionsResult.state = "returned"
    /\ ft.kind = "object"
    /\ \E i \in VisibleEntries(ft, targetVersion) :
          /\ ft.properties[i].value.type.kind = "object"
          /\ ft.properties[i].value.type.definitionName = ft.definitionName
    /\ Get(definitionsResult.value, ft.definitionName).description = ft.description

\* A call on a type that is not an Object.
C12_WitnessScalar ==
    /\ definitionsResult.state = "returned"
    /\ ft.kind = "array"
    /\ definitionsResult.value = <<>>

(***************************************************************************)
(* Serialization.  A serialized fragment is a dictionary: a sequence of    *)
(* entries in the order of insertion.  A JSON array is a sequence of its   *)
(* elements.                                                               *)
(***************************************************************************)
\* Array.from(set): the members in insertion order.
ArrayFrom(set) == set.members

\* The array left as it is.
sortKeepsOrder(array) == array

\* Array.prototype.sort() on an array of distinct Mutability strings: the
\* strings of the array in ascending order, "create" < "read" < "write".
sort(array) ==
    SelectSeq(<<Create, Read, Write>>,
              LAMBDA tag : \E i \in DOMAIN array : array[i] = tag)

\* serializeMutability(mt); `==` on two Sets compares which object they are.
serializeMutability(mt) ==
    IF mt = Undefined THEN <<>>
    ELSE LET set == mt[1]
             target1 == <<Entry("x-ms-mutability", sort(ArrayFrom(set)))>>
             target2 == IF set.identity = ReadOnly.identity
                        THEN Put(target1, "readOnly", TRUE) ELSE target1
         IN  IF set.identity = ImmutableSecret.identity
                \/ set.identity = MutableSecret.identity
             THEN Put(target2, "x-ms-secret", TRUE)
             ELSE target2

ObjectNotSerializable == "Cannot serialize field type object."

\* case "object" of serializeFieldType.
serializeObjectInline(t) == Returned(<<Entry("type", "object")>>)
serializeObject(t) == Thrown(ObjectNotSerializable)

RECURSIVE serializeFieldType(_)
serializeFieldType(t) ==
    CASE t.kind = "string" -> Returned(<<Entry("type", "string")>>)
      [] t.kind = "bool" -> Returned(<<Entry("type", "boolean")>>)
      [] t.kind = "int32" ->
            Returned(<<Entry("type", "integer"), Entry("format", "int32")>>)
      [] t.kind = "int64" ->
            Returned(<<Entry("type", "integer"), Entry("format", "int64")>>)
      [] t.kind = "float" ->
            Returned(<<Entry("type", "number"), Entry("format", "double")>>)
      [] t.kind = "enum" ->
            Returned(<<Entry("type", "string"), Entry("enum", t.values),
                       Entry("x-ms-enum", <<Entry("modelAsString", TRUE),
                                            Entry("name", t.typeName)>>)>>)
      [] t.kind = "array" ->
            LET items == serializeFieldType(t.elementKind)
            IN  IF items.state = "returned"
                THEN Returned(<<Entry("type", "array"), Entry("items", items.value)>>)
                ELSE items
      [] t.kind = "xref" ->
            Returned(<<Entry("$ref", "#/definitions/" \o t.target)>>)
      [] t.kind = "object" -> serializeObject(t)

\* `if (property.required) requiredFields.push(key)`
pushRequiredFlagged(requiredFields, key, property) ==
    IF property.required # Undefined THEN Append(requiredFields, key) ELSE requiredFields
pushRequired(requiredFields, key, property) ==
    IF property.required = <<TRUE>> THEN Append(requiredFields, key) ELSE requiredFields

RECURSIVE serializeDefinitionFrom(_, _, _, _)
\* The for-in loop of serializeDefinition at entry j, then the tail of the
\* function.
serializeDefinitionFrom(d, j, properties, requiredFields) ==
    IF j > Len(d.properties)
    THEN LET result0 == <<Entry("description", d.description), Entry("type", "object"),
                          Entry("properties", <<>>), Entry("required", <<>>)>>
             result1 == Put(result0, "properties", properties)
         IN  Returned(IF Len(requiredFields) > 0
                      THEN Put(result1, "required", requiredFields)
                      ELSE result1)
    ELSE LET key == d.properties[j].key
             property == d.properties[j].value
             type == serializeFieldType(property.type)
         IN  IF type.state # "returned" THEN type
             ELSE LET merged == concatObjects(<<
                                    <<Entry("description", property.description)>>,
                                    type.value,
                                    serializeMutability(property.mutability)>>)
                  IN  IF merged.state # "returned" THEN merged
                      ELSE Bind(<<Put(properties, key, merged.value),
                                  pushRequired(requiredFields, key, property)>>,
                                LAMBDA next :
                                    serializeDefinitionFrom(d, j + 1, next[1], next[2]))

serializeDefinition(d) ==
    Bind(d, LAMBDA definition : serializeDefinitionFrom(definition, 1, <<>>, <<>>))

(***************************************************************************)
(* Specification of the field-type serializer: one call of                 *)
(* serializeFieldType on a type nested in at most MaxArrayDepth arrays.    *)
(***************************************************************************)
MaxArrayDepth == 2

EnumTypes == {EnumT(n, vs) : n \in {"E", "F"}, vs \in {<<"u">>, <<"v", "u">>}}
XRefTypes == {XRefT(n) : n \in DefinitionNames}
BaseTypes ==
    {BoolT, StringT, Int32T, Int64T, FloatT} \cup EnumTypes \cup XRefTypes \cup LeafObjects

RECURSIVE ArraysOf(_, _)
\* The types of `base` wrapped in at most `depth` arrays.
ArraysOf(base, depth) ==
    IF depth = 0 THEN base
    ELSE base \cup {ArrayT(t) : t \in ArraysOf(base, depth - 1)}

FieldTypes == ArraysOf(BaseTypes, MaxArrayDepth)

InitFieldType ==
    /\ ft \in FieldTypes
    /\ definitionsResult = Pending
    /\ serializeFieldTypeResult = Pending
    /\ definitionInput = Definition("", <<>>)
    /\ serializeDefinitionResult = Pending
    /\ VersionIdle
    /\ MergeIdle
    /\ ModuleIdle
    /\ GenerateIdle
    /\ MutabilityIdle
    /\ VersionTextIdle
    /\ ResourceIdle
    /\ GraphIdle

SerializeFieldType ==
    /\ serializeFieldTypeResult = Pending
    /\ serializeFieldTypeResult' = serializeFieldType(ft)
    /\ UNCHANGED <<versionVars, mergeVars, definitionVars, definitionInput,
                   serializeDefinitionResult,
                   moduleVars, generateVars,
                   mutabilityVars,
                   versionTextVars,
                   resourceVars,
                   graphVars>>

NextFieldType == SerializeFieldType
SpecFieldType == InitFieldType /\ [][NextFieldType]_vars

RECURSIVE ContainsObject(_)
\* The type is an Object, or an Array whose element type contains one.
ContainsObject(t) ==
    IF t.kind = "object" THEN TRUE
    ELSE IF t.kind = "array" THEN ContainsObject(t.elementKind)
    ELSE FALSE

\* C18: serializeFieldType throws on every Object and on every Array that
\* (at any depth) holds an Object, and returns no fragment then; on every
\* other type it returns, an Array(t) as {type: array, items: the fragment
\* of t} and an XRef(n) as {$ref: #/definitions/n}.
C18_ObjectNeverSerializedInline ==
    serializeFieldTypeResult # Pending =>
        /\ ContainsObject(ft) <=> serializeFieldTypeResult = Thrown(ObjectNotSerializable)
        /\ ~ContainsObject(ft) =>
              /\ serializeFieldTypeResult.state = "returned"
              /\ ft.kind = "array" =>
                    /\ Keys(serializeFieldTypeResult.value) = {"type", "items"}
                    /\ Get(serializeFieldTypeResult.value, "type") = "array"
                    /\ Returned(Get(serializeFieldTypeResult.value, "items"))
                         = serializeFieldType(ft.elementKind)
              /\ ft.kind = "xref" =>
                    serializeFieldTypeResult.value
                      = <<Entry("$ref", "#/definitions/" \o ft.target)>>

\* An Array of Arrays of an Object has been rejected.
C18_Witness ==
    /\ ft.kind = "array"
    /\ ft.elementKind.kind = "array"
    /\ ft.elementKind.elementKind.kind = "object"
    /\ serializeFieldTypeResult = Thrown(ObjectNotSerializable)

\* An Array of Arrays of references has been serialized.
C18_WitnessReturned ==
    /\ ft = ArrayT(ArrayT(XRefT("A")))
    /\ serializeFieldTypeResult
         = Returned(<<Entry("type", "array"),
                      Entry("items", <<Entry("type", "array"),
                                       Entry("items", <<Entry("$ref", "#/definitions/A")>>)>>)>>)

(***************************************************************************)
(* Specification of the definition serializer: one call of                 *)
(* serializeDefinition on a Definition of at most MaxFields properties.    *)
(***************************************************************************)
MaxFields == 2

FieldKeys == [i \in 1..(MaxFields + 1) |-> <<"p", "q", "r", "s">>[i]]

\* One type of each shape: a scalar, an enum, an array of references and an
\* Object that was not lowered.
SerializedTypes ==
    {StringT, EnumT("E", <<"v", "u">>), ArrayT(XRefT("A")),
     ObjectT("B", "X", <<Entry("m", Property("M", StringT, Undefined, Undefined, AlwaysGA))>>)}

\* The mutability and the required flag of a property: neither; the
\* exported ReadOnly, required; an exported secret set, `required: false`;
\* a set of the caller with the members of ReadOnly, `required: false`.
SerializedFlags ==
    {<<Undefined, Undefined>>, <<<<ReadOnly>>, <<TRUE>>>>,
     <<<<MutableSecret>>, <<FALSE>>>>, <<<<NewSet(<<Read>>)>>, <<FALSE>>>>}

SerializedProperties ==
    {Property("P", t, flags[1], flags[2], AlwaysGA) :
        t \in SerializedTypes, flags \in SerializedFlags}

InitSerializeDefinition ==
    /\ definitionInput \in
         UNION {{Definition("D", [i \in 1..n |-> Entry(FieldKeys[i], ps[i])]) :
                    ps \in [1..n -> SerializedProperties]} : n \in 0..MaxFields}
    /\ serializeDefinitionResult = Pending
    /\ serializeFieldTypeResult = Pending
    /\ VersionIdle
    /\ MergeIdle
    /\ DefinitionsIdle
    /\ ModuleIdle
    /\ GenerateIdle
    /\ MutabilityIdle
    /\ VersionTextIdle
    /\ ResourceIdle
    /\ GraphIdle

SerializeDefinition ==
    /\ serializeDefinitionResult = Pending
    /\ serializeDefinitionResult' = serializeDefinition(definitionInput)
    /\ UNCHANGED <<versionVars, mergeVars, definitionVars, definitionInput,
                   serializeFieldTypeResult,
                   moduleVars, generateVars,
                   mutabilityVars,
                   versionTextVars,
                   resourceVars,
                   graphVars>>

NextSerializeDefinition == SerializeDefinition
SpecSerializeDefinition == InitSerializeDefinition /\ [][NextSerializeDefinition]_vars

\* The names of the definition's properties, in declaration order.
DeclaredKeys(d) == [i \in DOMAIN d.properties |-> d.properties[i].key]
\* The declared names whose required flag is set, in declaration order.
RequiredKeys(d) ==
    LET flagged == SelectSeq(d.properties, LAMBDA e : e.value.required = <<TRUE>>)
    IN  [i \in DOMAIN flagged |-> flagged[i].key]

\* C19: a Definition with at least one property and no property flagged
\* required is serialized without the key `required`.
C19_RequiredOmittedWhenNoneRequired ==
    (/\ serializeDefinitionResult.state = "returned"
     /\ Len(definitionInput.properties) >= 1
     /\ RequiredKeys(definitionInput) = <<>>)
        => ~hasOwnProperty(serializeDefinitionResult.value, "required")

\* The three fragments of a property have no key in common, and `merged`
\* holds exactly their entries.
DisjointMergeOf(merged, fragments) ==
    /\ \A i, j \in DOMAIN fragments : i # j => Keys(fragments[i]) \cap Keys(fragments[j]) = {}
    /\ Keys(merged) = UNION {Keys(fragments[i]) : i \in DOMAIN fragments}
    /\ Len(merged) = Cardinality(Keys(merged))
    /\ \A i \in DOMAIN fragments : \A k \in Keys(fragments[i]) :
          Get(merged, k) = Get(fragments[i], k)

\* C20: on a Definition whose property types hold no Object,
\* serializeDefinition returns {description, type: "object", properties,
\* required}: properties has exactly the declared names, each the disjoint
\* merge of the property's description, serialized type and serialized
\* mutability; required lists the names flagged required, in declaration
\* order, and is the empty list for a Definition with no properties.
C20_SerializedDefinitionShape ==
    (/\ serializeDefinitionResult # Pending
     /\ \A i \in DOMAIN definitionInput.properties :
           ~ContainsObject(definitionInput.properties[i].value.type))
        => /\ serializeDefinitionResult.state = "returned"
           /\ LET result == serializeDefinitionResult.value
                  properties == Get(result, "properties")
              IN  /\ [i \in DOMAIN result |-> result[i].key]
                       = <<"description", "type", "properties", "required">>
                  /\ Get(result, "description") = definitionInput.description
                  /\ Get(result, "type") = "object"
                  /\ [i \in DOMAIN properties |-> properties[i].key]
                       = DeclaredKeys(definitionInput)
                  /\ \A i \in DOMAIN definitionInput.properties :
                        LET property == definitionInput.properties[i].value
                        IN  DisjointMergeOf(properties[i].value,
                                <<<<Entry("description", property.description)>>,
                                  serializeFieldType(property.type).value,
                                  serializeMutability(property.mutability)>>)
                  /\ Get(result, "required") = RequiredKeys(definitionInput)
                  /\ definitionInput.properties = <<>> => Get(result, "required") = <<>>

\* Two properties serialized: the first flagged `required: false` with a set
\* of the caller, the second flagged required with the exported ReadOnly.
C20_Witness ==
    /\ Len(definitionInput.properties) = 2
    /\ definitionInput.properties[1].value.required = <<FALSE>>
    /\ definitionInput.properties[1].value.mutability = <<NewSet(<<Read>>)>>
    /\ definitionInput.properties[1].value.type.kind = "array"
    /\ definitionInput.properties[2].value.required = <<TRUE>>
    /\ definitionInput.properties[2].value.mutability = <<ReadOnly>>
    /\ definitionInput.properties[2].value.type.kind = "enum"
    /\ serializeDefinitionResult.state = "returned"
    /\ Get(serializeDefinitionResult.value, "required") = <<"q">>
    /\ Get(serializeDefinitionResult.value, "properties")[2].value
         = <<Entry("description", "P"), Entry("type", "string"),
             Entry("enum", <<"v", "u">>),
             Entry("x-ms-enum", <<Entry("modelAsString", TRUE), Entry("name", "E")>>),
             Entry("x-ms-mutability", <<"read">>), Entry("readOnly", TRUE)>>

\* The Definition with no properties has been serialized.
C20_WitnessEmpty ==
    /\ definitionInput.properties = <<>>
    /\ serializeDefinitionResult
         = Returned(<<Entry("description", "D"), Entry("type", "object"),
                      Entry("properties", <<>>), Entry("required", <<>>)>>)

(***************************************************************************)
(* JSON.stringify(value, null, gap) on a serialized value.  The model      *)
(* holds `[]` and `{}` as the same empty sequence and does not tag its     *)
(* values, so the text is produced along the shape of the value: the shape *)
(* of a member follows from the shape of its object and from its key.      *)
(* No string of the model needs escaping.                                  *)
(***************************************************************************)
quote(str) == "\"" \o str \o "\""

RECURSIVE joinFrom(_, _, _)
\* The elements from index i on, `separator` between them.
joinFrom(texts, separator, i) ==
    IF i > Len(texts) THEN ""
    ELSE IF i = Len(texts) THEN texts[i]
    ELSE texts[i] \o separator \o joinFrom(texts, separator, i + 1)

\* Array.prototype.join on an array of strings.
join(texts, separator) == Bind(texts, LAMBDA array : joinFrom(array, separator, 1))

\* The shape of the member `key` of an object of shape `shape`.
ShapeOf(shape, key) ==
    CASE shape = "definitions" -> "definition"
      [] shape = "definition" ->
            CASE key = "properties" -> "fragments"
              [] key = "required" -> "strings"
              [] OTHER -> "string"
      [] shape = "fragments" -> "fragment"
      [] shape = "fragment" ->
            CASE key \in {"enum", "x-ms-mutability"} -> "strings"
              [] key = "x-ms-enum" -> "x-ms-enum"
              [] key = "items" -> "fragment"
              [] key \in {"readOnly", "x-ms-secret"} -> "boolean"
              [] OTHER -> "string"
      [] shape = "x-ms-enum" -> IF key = "modelAsString" THEN "boolean" ELSE "string"
      [] shape = "paths" -> "pathItem"
      [] shape = "pathItem" -> "handler"
      [] shape = "handler" ->
            CASE key = "parameters" -> "parameters"
              [] key = "x-ms-long-running-operation" -> "boolean"
              [] key = "responses" -> "responses"
              [] OTHER -> "string"
      [] shape = "parameter" ->
            CASE key = "required" -> "boolean"
              [] key = "schema" -> "schema"
              [] OTHER -> "string"
      [] shape = "schema" -> "string"
      [] shape = "responses" -> "response"
      [] shape = "response" -> IF key = "schema" THEN "schema" ELSE "string"
      [] shape = "document" ->
            CASE key = "info" -> "info"
              [] key \in {"schemes", "consumes", "produces"} -> "strings"
              [] key = "security" -> "securities"
              [] key = "securityDefinitions" -> "securityDefinitions"
              [] key = "paths" -> "paths"
              [] key = "parameters" -> "empty"
              [] key = "definitions" -> "definitions"
              [] OTHER -> "string"
      [] shape = "info" -> "string"
      [] shape = "security" -> "strings"
      [] shape = "securityDefinitions" -> "azure_auth"
      [] shape = "azure_auth" -> IF key = "scopes" THEN "scopes" ELSE "string"
      [] shape = "scopes" -> "string"

\* The shape of the elements of an array of shape `shape`.
ElementShapeOf(shape) ==
    CASE shape = "strings" -> "string"
      [] shape = "parameters" -> "parameter"
      [] shape = "securities" -> "security"

ArrayShapes == {"strings", "parameters", "securities"}

\* The texts of the members of an object or array between the brackets
\* `open` and `close`, nested at indentation `indent`.
wrap(open, texts, close, gap, indent) ==
    IF texts = <<>> THEN open \o close
    ELSE IF gap = "" THEN open \o join(texts, ",") \o close
    ELSE open \o "\n" \o indent \o gap
              \o join(texts, ",\n" \o indent \o gap)
              \o "\n" \o indent \o close

RECURSIVE stringify(_, _, _, _)
\* The text of `value`, nested at indentation `indent`.
stringifyValue(value, shape, gap, indent) ==
    CASE shape = "string" -> quote(value)
      [] shape = "boolean" -> IF value THEN "true" ELSE "false"
      [] shape \in ArrayShapes ->
            Bind([i \in DOMAIN value |->
                    stringify(value[i], ElementShapeOf(shape), gap, indent \o gap)],
                 LAMBDA texts : wrap("[", texts, "]", gap, indent))
      [] OTHER ->
            Bind([i \in DOMAIN value |->
                    quote(value[i].key) \o (IF gap = "" THEN ":" ELSE ": ")
                      \o stringify(value[i].value, ShapeOf(shape, value[i].key),
                                   gap, indent \o gap)],
                 LAMBDA texts : wrap("{", texts, "}", gap, indent))

stringify(value, shape, gap, indent) ==
    Bind(<<value, indent>>, LAMBDA at : stringifyValue(at[1], shape, gap, at[2]))

\* JSON.stringify(value)
JSONstringifyText(value, shape) == stringify(value, shape, "", "")

RECURSIVE concatRecordsTextFrom(_, _, _, _, _)
\* concatRecords on records of serialized values of shape `shape`.
concatRecordsTextFrom(recs, shape, i, j, result) ==
    IF i > Len(recs) THEN Returned(result)
    ELSE IF j > Len(recs[i]) THEN concatRecordsTextFrom(recs, shape, i + 1, 1, result)
    ELSE LET key == recs[i][j].key
         IN  IF hasOwnProperty(result, key)
             THEN LET orig == JSONstringifyText(Get(result, key), shape)
                      next == JSONstringifyText(recs[i][j].value, shape)
                  IN  IF orig # next
                      THEN Thrown(key)
                      ELSE concatRecordsTextFrom(recs, shape, i, j + 1, result)
             ELSE Bind(Put(result, key, recs[i][j].value),
                       LAMBDA next : concatRecordsTextFrom(recs, shape, i, j + 1, next))

RECURSIVE concatRecordsTextFirstWinsFrom(_, _, _, _)
concatRecordsTextFirstWinsFrom(recs, i, j, result) ==
    IF i > Len(recs) THEN Returned(result)
    ELSE IF j > Len(recs[i]) THEN concatRecordsTextFirstWinsFrom(recs, i + 1, 1, result)
    ELSE IF hasOwnProperty(result, recs[i][j].key)
         THEN concatRecordsTextFirstWinsFrom(recs, i, j + 1, result)
         ELSE concatRecordsTextFirstWinsFrom(recs, i, j + 1,
                  Put(result, recs[i][j].key, recs[i][j].value))

concatRecordsTextFirstWins(recs, shape) == concatRecordsTextFirstWinsFrom(recs, 1, 1, <<>>)

concatRecordsText(recs, shape) ==
    Bind(recs, LAMBDA array : concatRecordsTextFrom(array, shape, 1, 1, <<>>))

(***************************************************************************)
(* Resources and modules.                                                  *)
(***************************************************************************)
\* s.charAt(0).toUpperCase() + s.slice(1), on the strings of the model: a
\* string that starts with a capital is returned as it is.
capitalize(str) ==
    CASE str = "widgets" -> "Widgets"
      [] str = "gadgets" -> "Gadgets"
      [] OTHER -> str

\* The number as it is, unpadded.
padNothing(n) == ToString(n)

\* n < 10 ? "0" + n : n.toString()
pad(n) == IF n < 10 THEN "0" \o ToString(n) ELSE ToString(n)

serializeVersion(version) ==
    LET year == version[1][1]
        month == version[1][2]
        day == version[1][3]
        versionString == ToString(year) \o "-" \o pad(month) \o "-" \o pad(day)
    IN  IF version[2] = Preview THEN versionString \o "-preview" ELSE versionString

\* A PathSuffix is a sequence of pairs <<type, ParameterSegment>>.
ParameterSegment(name) == [name |-> name]

serializePathSuffix(ps) ==
    join([i \in DOMAIN ps |-> ps[i][1] \o "/{" \o ps[i][2].name \o "}"], "/")

EmptyPathSuffix == "Cannot get resourceTypeName of empty PathSuffix."

resourceDefinitionName(ps, suffix) ==
    IF Len(ps) = 0 THEN Thrown(EmptyPathSuffix)
    ELSE Returned(capitalize(ps[Len(ps)][1]) \o suffix)

Tracked == "Tracked"
Proxy == "Proxy"
ReadOnlyProxy == "ReadOnlyProxy"
ResourceType == {Tracked, Proxy, ReadOnlyProxy}

Resource(path, resourceType, readableName, readablePluralName, properties, lifetime) ==
    [path |-> path, resourceType |-> resourceType, readableName |-> readableName,
     readablePluralName |-> readablePluralName, properties |-> properties,
     previewVersion |-> lifetime.previewVersion, gaVersion |-> lifetime.gaVersion,
     deprecatedOn |-> lifetime.deprecatedOn]

MethodGet == "get"
MethodPut == "put"
MethodPatch == "patch"
MethodDelete == "delete"

CommonTypes == "../../../../../common-types/resource-management/v2/types.json#/parameters/"

\* The response table of Get, whatever the method.
handlerResponsesOfGet(readableName, method, defn) ==
    <<Entry("200", <<Entry("description", "The properties of this "
           \o readableName \o " were retrieved successfully."),
         Entry("schema", <<Entry("$ref", defn)>>)>>)>>

\* The responses of serializeHandler for `method`.
handlerResponses(readableName, method, defn) ==
    LET schema == <<Entry("$ref", defn)>>
    IN  CASE method = MethodGet ->
               <<Entry("200", <<Entry("description", "The properties of this "
                      \o readableName \o " were retrieved successfully."),
                    Entry("schema", schema)>>)>>
          [] method = MethodDelete ->
               <<Entry("202", <<Entry("description", "Accepted. This " \o readableName
                      \o " will be deleted asynchronously.")>>),
                 Entry("204", <<Entry("description", "No such " \o readableName
                      \o " to delete.")>>)>>
          [] method = MethodPut ->
               <<Entry("200", <<Entry("description", "This " \o readableName
                      \o " is being updated. Poll for provisioningState=Succeeded, Failed, or Cancelled for completion."),
                    Entry("schema", schema)>>),
                 Entry("201", <<Entry("description", "This " \o readableName
                      \o " is being created. Poll for provisioningState=Succeeded, Failed, or Cancelled for completion."),
                    Entry("schema", schema)>>)>>
          [] method = MethodPatch ->
               <<Entry("200", <<Entry("description", "Completed synchronously. This will only happen if the values provided match those already present in this "
                      \o readableName \o "."),
                    Entry("schema", schema)>>),
                 Entry("202", <<Entry("description", "This " \o readableName
                      \o " is being updated asynchronously. Poll the provided operation for completion."),
                    Entry("schema", schema)>>)>>

\* The description of serializeHandler for `method`.
handlerDescription(readableName, method) ==
    CASE method = MethodGet -> "Get the properties of this " \o readableName \o "."
      [] method = MethodPut -> "Create or update this " \o readableName
            \o ". If updating, all properties must be provided. Use PATCH to update with only some properties."
      [] method = MethodDelete -> "Delete this " \o readableName \o "."
      [] method = MethodPatch -> "Update properties of this " \o readableName
            \o ". Any properties not provided will not be altered."

\* The body parameter of serializeHandler.
bodyParameter(resource, defn) ==
    <<Entry("name", "body"), Entry("in", "body"), Entry("required", TRUE),
      Entry("schema", <<Entry("$ref", defn)>>),
      Entry("description", "The properties to set on this " \o resource.readableName \o ".")>>

\* The parameters with a body parameter for every method but Get.
handlerParametersBodyUnlessGet(resource, method, defn) ==
    <<<<Entry("$ref", CommonTypes \o "SubscriptionIdParameter")>>,
      <<Entry("$ref", CommonTypes \o "ResourceGroupNameParameter")>>>>
    \o [i \in DOMAIN resource.path |->
           <<Entry("$ref", "#/parameters/" \o resource.path[i][2].name)>>]
    \o <<<<Entry("$ref", CommonTypes \o "ApiVersionParameter")>>>>
    \o (IF method # MethodGet THEN <<bodyParameter(resource, defn)>> ELSE <<>>)

\* The parameters of serializeHandler for `method`.
handlerParameters(resource, method, defn) ==
    LET parameters0 ==
            <<<<Entry("$ref", CommonTypes \o "SubscriptionIdParameter")>>,
              <<Entry("$ref", CommonTypes \o "ResourceGroupNameParameter")>>>>
            \o [i \in DOMAIN resource.path |->
                   <<Entry("$ref", "#/parameters/" \o resource.path[i][2].name)>>]
            \o <<<<Entry("$ref", CommonTypes \o "ApiVersionParameter")>>>>
    IN  IF method = MethodPut \/ method = MethodPatch
        THEN Append(parameters0, bodyParameter(resource, defn))
        ELSE parameters0

serializeHandler(resource, method) ==
    LET opKind == CASE method = MethodGet -> "Get"
                    [] method = MethodPut -> "CreateUpdate"
                    [] method = MethodPatch -> "Update"
                    [] method = MethodDelete -> "Delete"
        target0 == <<Entry("operationId",
                           capitalize(resource.readablePluralName) \o "_" \o opKind)>>
        name == resourceDefinitionName(resource.path, "Resource")
    IN  IF name.state # "returned" THEN name
        ELSE LET defn == "#/definitions/" \o name.value
                 parameters == handlerParameters(resource, method, defn)
                 target1 == Put(target0, "parameters", parameters)
                 target2 == Put(target1, "description",
                                handlerDescription(resource.readableName, method))
                 target3 == IF method # MethodGet
                            THEN Put(target2, "x-ms-long-running-operation", TRUE)
                            ELSE target2
             IN  Returned(Put(target3, "responses",
                              handlerResponses(resource.readableName, method, defn)))

pathsFromResource(resource, namespace, tv) ==
    LET resourcePath ==
            "/subscriptions/{subscriptionId}/resourceGroups/{resourceGroupName}/providers/"
              \o namespace \o "/" \o serializePathSuffix(resource.path)
        get == serializeHandler(resource, MethodGet)
        put == serializeHandler(resource, MethodPut)
        patch == serializeHandler(resource, MethodPatch)
        delete == serializeHandler(resource, MethodDelete)
    IN  IF get.state # "returned" THEN get
        ELSE IF put.state # "returned" THEN put
        ELSE IF patch.state # "returned" THEN patch
        ELSE IF delete.state # "returned" THEN delete
        ELSE Returned(<<Entry(resourcePath,
                              <<Entry("get", get.value), Entry("put", put.value),
                                Entry("patch", patch.value),
                                Entry("delete", delete.value)>>)>>)

\* `properties["properties"] = ...` of definitionsFromResource.
assignPropertiesIfAbsent(properties, value) ==
    IF hasOwnProperty(properties, "properties") THEN properties
    ELSE Put(properties, "properties", value)
assignProperties(properties, value) == Put(properties, "properties", value)

\* definitionsFromResource with the module-level object `common` for
\* commonTrackedProperties: the outcome of the call, and the object after it
\* (a Tracked resource writes into the object itself).
definitionsFromResource(resource, tv, common) ==
    LET tracked == resource.resourceType = Tracked
        properties0 == IF tracked THEN common ELSE <<>>
        propertiesName == resourceDefinitionName(resource.path, "Properties")
    IN  IF propertiesName.state # "returned"
        THEN [outcome |-> propertiesName, commonTrackedProperties |-> common]
        ELSE
        LET properties ==
                assignProperties(properties0,
                    Property("Properties of a " \o resource.readableName \o ".",
                             XRefT(propertiesName.value), Undefined, Undefined,
                             Unversioned))
            after == IF tracked THEN properties ELSE common
            resourceName == resourceDefinitionName(resource.path, "Resource")
            resourceDefinition ==
                serializeDefinition(Definition("A " \o resource.readableName \o ".",
                                               properties))
            propertiesDefinition ==
                serializeDefinition(Definition("Properties of a " \o resource.readableName,
                                               resource.properties))
        IN  [commonTrackedProperties |-> after,
             outcome |->
                IF resourceName.state # "returned" THEN resourceName
                ELSE IF resourceDefinition.state # "returned" THEN resourceDefinition
                ELSE IF propertiesDefinition.state # "returned" THEN propertiesDefinition
                ELSE Returned(Put(<<Entry(resourceName.value, resourceDefinition.value)>>,
                                  propertiesName.value, propertiesDefinition.value))]

RECURSIVE mapPathsFromResource(_, _, _, _, _)
\* resourcesInVersion.map(resource => pathsFromResource(...)) from index i.
mapPathsFromResource(resources, namespace, tv, i, mapped) ==
    IF i > Len(resources) THEN Returned(mapped)
    ELSE Bind(pathsFromResource(resources[i], namespace, tv),
              LAMBDA paths :
                  IF paths.state # "returned" THEN paths
                  ELSE Bind(Append(mapped, paths.value),
                            LAMBDA next : mapPathsFromResource(resources, namespace, tv,
                                                               i + 1, next)))

RECURSIVE mapDefinitionsFromResource(_, _, _, _, _)
\* resourcesInVersion.map(resource => definitionsFromResource(...)) from
\* index i, with the module-level object as the calls leave it.
mapDefinitionsFromResource(resources, tv, i, mapped, common) ==
    IF i > Len(resources)
    THEN [outcome |-> Returned(mapped), commonTrackedProperties |-> common]
    ELSE Bind(definitionsFromResource(resources[i], tv, common),
              LAMBDA call :
                  IF call.outcome.state # "returned" THEN call
                  ELSE Bind(Append(mapped, call.outcome.value),
                            LAMBDA next : mapDefinitionsFromResource(resources, tv, i + 1,
                                              next, call.commonTrackedProperties)))

\* The object literal serializeModule returns.
document(m, tv, paths, definitions) ==
    <<Entry("swagger", "2.0"),
      Entry("info", <<Entry("title", m.title), Entry("description", m.description),
                      Entry("version", serializeVersion(tv))>>),
      Entry("host", "management.azure.com"),
      Entry("schemes", <<"https">>),
      Entry("consumes", <<"application/json">>),
      Entry("produces", <<"application/json">>),
      Entry("security", <<<<Entry("azure_auth", <<"user_impersonation">>)>>>>),
      Entry("securityDefinitions",
            <<Entry("azure_auth",
                    <<Entry("type", "oauth2"),
                      Entry("authorizationUrl",
                            "https://login.microsoftonline.com/common/oauth2/authorize"),
                      Entry("flow", "implicit"),
                      Entry("description", "Azure Active Directory OAuth2 Flow"),
                      Entry("scopes", <<Entry("user_impersonation",
                                              "Impersonate your user account")>>)>>)>>),
      Entry("paths", paths),
      Entry("parameters", <<>>),
      Entry("definitions", definitions)>>

\* module.resources.filter(resource => inVersion(resource, targetVersion))
filterNothing(resources, tv) == resources
filterInVersion(resources, tv) ==
    SelectSeq(resources, LAMBDA resource : inVersion(resource, tv))

\* serializeModule with the module-level object `common`: the outcome of the
\* call, and the object after it.
serializeModule(m, tv, common) ==
    Bind(filterInVersion(m.resources, tv), LAMBDA resourcesInVersion :
    Bind(mapPathsFromResource(resourcesInVersion, m.namespace, tv, 1, <<>>),
         LAMBDA mappedPaths :
    Bind(IF mappedPaths.state = "returned"
         THEN concatRecordsText(mappedPaths.value, "pathItem")
         ELSE mappedPaths,
         LAMBDA paths :
    IF paths.state # "returned"
    THEN [outcome |-> paths, commonTrackedProperties |-> common]
    ELSE
    Bind(mapDefinitionsFromResource(resourcesInVersion, tv, 1, <<>>, common),
         LAMBDA mappedDefinitions :
    Bind(IF mappedDefinitions.outcome.state = "returned"
         THEN concatRecordsText(mappedDefinitions.outcome.value, "definition")
         ELSE mappedDefinitions.outcome,
         LAMBDA definitions :
    [commonTrackedProperties |-> mappedDefinitions.commonTrackedProperties,
     outcome |-> IF definitions.state # "returned" THEN definitions
                 ELSE Returned(document(m, tv, paths.value, definitions.value))])))))

(***************************************************************************)
(* Specification of the module compiler: calls of serializeModule, one     *)
(* after the other, on modules of at most MaxResources resources.  The     *)
(* module-level object commonTrackedProperties lives across the calls.     *)
(***************************************************************************)
MaxResources == 2

ModuleTargets == DefinitionTargets

WidgetsPath == <<<<"widgets", ParameterSegment("widgetName")>>>>
\* Another spelling of the type: another path, the same definition names.
CapitalWidgetsPath == <<<<"Widgets", ParameterSegment("widgetName")>>>>
GadgetsPath == <<<<"gadgets", ParameterSegment("gadgetName")>>>>

\* A property of every channel and a property of the preview channel only.
ResourceProperties ==
    <<Entry("p", Property("P", StringT, Undefined, <<TRUE>>, AlwaysGA)),
      Entry("q", Property("Q", StringT, <<ReadOnly>>, Undefined, PreviewOnly))>>

\* A property whose Object type was not lowered.
ObjectProperties ==
    <<Entry("o", Property("O", ObjectT("B", "X", <<>>), Undefined, Undefined, AlwaysGA))>>

\* Widgets of either category and a gadget; a widget under the other
\* spelling and a widget described as a gadget; a Tracked and a Proxy widget
\* of the preview channel; and two resources that cannot be compiled, of the
\* preview channel.
Resources ==
    {Resource(WidgetsPath, Tracked, "widget", "widgets", ResourceProperties, AlwaysGA),
     Resource(WidgetsPath, Proxy, "widget", "widgets", ResourceProperties, AlwaysGA),
     Resource(CapitalWidgetsPath, Tracked, "widget", "widgets", ResourceProperties, AlwaysGA),
     Resource(WidgetsPath, Tracked, "gadget", "gadgets", ResourceProperties, AlwaysGA),
     Resource(GadgetsPath, Tracked, "gadget", "gadgets", ResourceProperties, AlwaysGA),
     Resource(WidgetsPath, Tracked, "widget", "widgets", ResourceProperties, PreviewOnly),
     Resource(WidgetsPath, Proxy, "widget", "widgets", ResourceProperties, PreviewOnly),
     Resource(GadgetsPath, ReadOnlyProxy, "gadget", "gadgets", ObjectProperties, PreviewOnly),
     Resource(<<>>, Proxy, "gadget", "gadgets", <<>>, PreviewOnly)}

Modules ==
    {Module("widgets.json", "Widgets", "The widget service.", "Microsoft.Widgets", resources) :
        resources \in UNION {[1..n -> Resources] : n \in 0..MaxResources}}

InitModule ==
    /\ ModuleIdle
    /\ GenerateIdle
    /\ VersionIdle
    /\ MergeIdle
    /\ DefinitionsIdle
    /\ SerializeIdle
    /\ MutabilityIdle
    /\ VersionTextIdle
    /\ ResourceIdle
    /\ GraphIdle

\* One call serializeModule(m, tv).
SerializeModule ==
    /\ serializeModuleResult = Pending
    /\ \E m \in Modules, tv \in ModuleTargets :
          \E call \in {serializeModule(m, tv, commonTrackedProperties)} :
              /\ module' = m
              /\ targetVersion' = tv
              /\ serializeModuleResult' = call.outcome
              /\ commonTrackedProperties' = call.commonTrackedProperties
    /\ UNCHANGED <<versioned, inVersionResult, mergeVars, definitionVars, serializeVars,
                   generateVars,
                   mutabilityVars,
                   versionTextVars,
                   resourceVars,
                   graphVars>>

\* The caller is done with the outcome of the call; the module-level object
\* stays as the call left it.
SerializeModuleDone ==
    /\ serializeModuleResult # Pending
    /\ module' = Module("", "", "", "", <<>>)
    /\ targetVersion' = <<<<MinYear, 1, 1>>, GA>>
    /\ serializeModuleResult' = Pending
    /\ UNCHANGED <<commonTrackedProperties, versioned, inVersionResult, mergeVars,
                   definitionVars, serializeVars, generateVars,
                   mutabilityVars,
                   versionTextVars,
                   resourceVars,
                   graphVars>>

NextModule == SerializeModule \/ SerializeModuleDone
SpecModule == InitModule /\ [][NextModule]_vars

\* The positions of the module's resources that are visible under the target.
VisibleResources == {i \in DOMAIN module.resources : inVersion(module.resources[i], targetVersion)}

\* The key of the resource in the paths table.
FullPath(resource) ==
    "/subscriptions/{subscriptionId}/resourceGroups/{resourceGroupName}/providers/"
      \o module.namespace \o "/"
      \o join([i \in DOMAIN resource.path |->
                  resource.path[i][1] \o "/{" \o resource.path[i][2].name \o "}"], "/")

\* The capitalized last path segment of the resource.
TypeName(resource) ==
    LET last == resource.path[Len(resource.path)][1]
    IN  IF last = "widgets" THEN "Widgets" ELSE IF last = "gadgets" THEN "Gadgets" ELSE last

\* The fragments the resource produces on its own.
PathsOf(resource) == pathsFromResource(resource, module.namespace, targetVersion)
DefinitionsOf(resource) ==
    definitionsFromResource(resource, targetVersion, InitialCommonTrackedProperties).outcome

\* C13: the document is built from exactly the visible resources: the paths
\* table holds, for every visible resource, its path item under its full
\* path, the definitions table holds its Resource and Properties
\* definitions, and neither table holds anything else.
C13_DocumentOfVisibleResources ==
    serializeModuleResult.state = "returned" =>
        LET paths == Get(serializeModuleResult.value, "paths")
            definitions == Get(serializeModuleResult.value, "definitions")
        IN  /\ Keys(paths) = {FullPath(module.resources[i]) : i \in VisibleResources}
            /\ Len(paths) = Cardinality(Keys(paths))
            /\ Keys(definitions) =
                 UNION {{TypeName(module.resources[i]) \o "Resource",
                         TypeName(module.resources[i]) \o "Properties"} :
                        i \in VisibleResources}
            /\ Len(definitions) = Cardinality(Keys(definitions))
            /\ \A i \in VisibleResources :
                  LET resource == module.resources[i]
                  IN  /\ Get(paths, FullPath(resource))
                           = Get(PathsOf(resource).value, FullPath(resource))
                      /\ \A suffix \in {"Resource", "Properties"} :
                            Get(definitions, TypeName(resource) \o suffix)
                              = Get(DefinitionsOf(resource).value,
                                    TypeName(resource) \o suffix)

\* A document compiled from a module of one visible and one invisible
\* resource of different types.
C13_Witness ==
    /\ serializeModuleResult.state = "returned"
    /\ Len(module.resources) = 2
    /\ Cardinality(VisibleResources) = 1
    /\ module.resources[1].path # module.resources[2].path
    /\ Len(Get(serializeModuleResult.value, "paths")) = 1
    /\ Len(Get(serializeModuleResult.value, "definitions")) = 2

\* C14: in the compiled document no property of a visible resource that is
\* not itself visible under the target version appears in the resource's
\* Properties definition.
C14_InvisiblePropertiesDropped ==
    serializeModuleResult.state = "returned" =>
        \A i \in VisibleResources :
            LET resource == module.resources[i]
                definition == Get(Get(serializeModuleResult.value, "definitions"),
                                  TypeName(resource) \o "Properties")
            IN  \A j \in DOMAIN resource.properties :
                    ~inVersion(resource.properties[j].value, targetVersion)
                        => ~hasOwnProperty(Get(definition, "properties"),
                                           resource.properties[j].key)

\* Two visible resources, each producing its fragments on its own, that
\* produce one `table` key with differing content.
Clash(i, j, Fragment(_)) ==
    LET one == Fragment(module.resources[i])
        other == Fragment(module.resources[j])
    IN  IF one.state = "returned" /\ other.state = "returned"
        THEN {k \in Keys(one.value) \cap Keys(other.value) :
                 Get(one.value, k) # Get(other.value, k)}
        ELSE {}

ClashingKeys ==
    UNION {Clash(i, j, PathsOf) \cup Clash(i, j, DefinitionsOf) :
              i \in VisibleResources, j \in VisibleResources}

\* Every visible resource produces its fragments.
AllProduced ==
    \A i \in VisibleResources :
        /\ PathsOf(module.resources[i]).state = "returned"
        /\ DefinitionsOf(module.resources[i]).state = "returned"

\* C15: when two visible resources produce the same definitions key or the
\* same paths key with differing content, serializeModule throws the
\* conflict error naming such a key and returns no document.
C15_ClashingResourcesRejected ==
    (serializeModuleResult # Pending /\ AllProduced /\ ClashingKeys # {})
        => /\ serializeModuleResult.state = "thrown"
           /\ serializeModuleResult.key \in ClashingKeys

\* A clash on a definitions key between resources of different paths.
C15_Witness ==
    /\ serializeModuleResult = Thrown("WidgetsResource")
    /\ Len(module.resources) = 2
    /\ FullPath(module.resources[1]) # FullPath(module.resources[2])

\* A clash on a paths key.
C15_WitnessPaths ==
    /\ serializeModuleResult.state = "thrown"
    /\ Len(module.resources) = 2
    /\ serializeModuleResult.key = FullPath(module.resources[1])

\* C17: a call of serializeModule returns (or throws) what it returns on the
\* freshly loaded program, whatever calls were made before it.
C17_CompilationDeterministic ==
    serializeModuleResult # Pending =>
        serializeModuleResult
          = serializeModule(module, targetVersion, InitialCommonTrackedProperties).outcome

\* A module whose only visible resource is a Proxy, compiled after an
\* earlier call compiled a Tracked gadget: the module-level object holds the
\* earlier call's reference.
C17_Witness ==
    /\ serializeModuleResult.state = "returned"
    /\ Len(module.resources) = 2
    /\ VisibleResources = {2}
    /\ module.resources[1].resourceType = Tracked
    /\ module.resources[1].path = WidgetsPath
    /\ module.resources[2].resourceType = Proxy
    /\ hasOwnProperty(commonTrackedProperties, "properties")
    /\ Get(commonTrackedProperties, "properties").type = XRefT("GadgetsProperties")

(***************************************************************************)
(* Specification of the generator: one call of generateSwagger on a list   *)
(* of at most MaxVersions target versions, one action for each element     *)
(* versions.forEach visits.                                                *)
(***************************************************************************)
MaxVersions == 2
MaxDayOfMonth == 31
MaxSegments == 2
MaxNodes == 3
MaxCallDepth == 4

TargetPath == "out"

\* A Tracked widget of every channel, a Proxy widget of the preview channel
\* (their definitions clash under a preview version), and the two resources
\* that cannot be compiled.
GeneratedResources ==
    {resource \in Resources :
        \/ /\ resource.readableName = "widget"
           /\ resource.path = WidgetsPath
           /\ \/ resource.resourceType = Tracked /\ resource.gaVersion # Undefined
              \/ resource.resourceType = Proxy /\ resource.gaVersion = Undefined
        \/ resource.resourceType = ReadOnlyProxy
        \/ resource.path = <<>>}

GeneratedModules ==
    {Module("widgets.json", "Widgets", "The widget service.", "Microsoft.Widgets", resources) :
        resources \in UNION {[1..n -> GeneratedResources] : n \in 0..MaxResources}}

VersionLists == UNION {[1..n -> ModuleTargets] : n \in 0..MaxVersions}

\* The directory and the file of a version.
directoryOf(version) ==
    LET subdir == IF version[2] = Preview THEN "preview" ELSE "stable"
    IN  TargetPath \o "/" \o subdir \o "/" \o serializeVersion(version)
fileOf(m, version) == directoryOf(version) \o "/" \o m.filename

File(path, content) == [path |-> path, content |-> content]

\* Deno.writeTextFileSync(path, content) on the files `disk`.
writeTextFileSync(disk, path, content) ==
    {file \in disk : file.path # path} \cup {File(path, content)}

\* The files after serializeModule threw: the argument of
\* Deno.writeTextFileSync was never computed and the call never made.
filesAfterThrowTruncated(disk, path) == writeTextFileSync(disk, path, "")
filesAfterThrow(disk, path) == disk

InitGenerate ==
    /\ module \in GeneratedModules
    /\ versions \in VersionLists
    /\ commonTrackedProperties = InitialCommonTrackedProperties
    /\ serializeModuleResult = Pending
    /\ position = 1
    /\ directories = {}
    /\ files = {}
    /\ writes = <<>>
    /\ generateSwaggerResult = Pending
    /\ VersionIdle
    /\ MergeIdle
    /\ DefinitionsIdle
    /\ SerializeIdle
    /\ MutabilityIdle
    /\ VersionTextIdle
    /\ ResourceIdle
    /\ GraphIdle

\* The callback of versions.forEach on the element at `position`.
GenerateSwaggerVersion ==
    /\ generateSwaggerResult = Pending
    /\ position <= Len(versions)
    /\ \E version \in {versions[position]} :
       \E dir \in {directoryOf(version)}, path \in {fileOf(module, version)} :
       \E call \in {serializeModule(module, version, commonTrackedProperties)} :
           /\ directories' = directories \cup {dir}
           /\ commonTrackedProperties' = call.commonTrackedProperties
           /\ IF call.outcome.state = "returned"
              THEN \E content \in {stringify(call.outcome.value, "document", "    ", "")} :
                       /\ files' = writeTextFileSync(files, path, content)
                       /\ writes' = Append(writes, File(path, content))
                       /\ position' = position + 1
                       /\ UNCHANGED generateSwaggerResult
              ELSE /\ files' = filesAfterThrow(files, path)
                   /\ generateSwaggerResult' = call.outcome
                   /\ UNCHANGED <<writes, position>>
    /\ UNCHANGED <<versionVars, mergeVars, definitionVars, serializeVars, module,
                   serializeModuleResult, versions,
                   mutabilityVars,
                   versionTextVars,
                   resourceVars,
                   graphVars>>

\* versions.forEach has visited every element.
GenerateSwaggerReturn ==
    /\ generateSwaggerResult = Pending
    /\ position > Len(versions)
    /\ generateSwaggerResult' = Returned(Undefined)
    /\ UNCHANGED <<versionVars, mergeVars, definitionVars, serializeVars, moduleVars,
                   versions, position, directories, files, writes,
                   mutabilityVars,
                   versionTextVars,
                   resourceVars,
                   graphVars>>

NextGenerate == GenerateSwaggerVersion \/ GenerateSwaggerReturn
SpecGenerate == InitGenerate /\ [][NextGenerate]_vars

\* What compiling the version at position j gives.
Compiled(j) == serializeModule(module, versions[j], InitialCommonTrackedProperties).outcome

\* The file of the version at position j, fully written.
FullFile(j) ==
    File(TargetPath \o "/" \o (IF versions[j][2] = Preview THEN "preview" ELSE "stable")
           \o "/" \o serializeVersion(versions[j]) \o "/" \o module.filename,
         stringify(Compiled(j).value, "document", "    ", ""))

\* C16: the versions are compiled in list order and a failure at position i
\* ends the call: every version before i was compiled and written once, in
\* order and in full, the version at i fails to compile, and no file is
\* written for it or for a later version.
C16_FailureWritesNoPartialFile ==
    /\ position \in 1..(Len(versions) + 1)
    /\ \A j \in 1..(position - 1) : Compiled(j).state = "returned"
    /\ writes = [j \in 1..(position - 1) |-> FullFile(j)]
    /\ files = {FullFile(j) : j \in 1..(position - 1)}
    /\ generateSwaggerResult.state = "thrown"
          => /\ position <= Len(versions)
             /\ generateSwaggerResult = Compiled(position)

\* The second version failed to compile after the first was written.
C16_Witness ==
    /\ generateSwaggerResult.state = "thrown"
    /\ position = 2
    /\ Len(versions) = 2
    /\ Len(writes) = 1
    /\ writes[1].path = "out/stable/2021-01-01/widgets.json"
    /\ files = {writes[1]}
    /\ directories = {"out/stable/2021-01-01", "out/preview/2021-01-01-preview"}


(***************************************************************************)
(* Specification of the fragment serializers: one call of                  *)
(* serializeMutability and one call of serializeVersion, on independently  *)
(* drawn arguments.                                                        *)
(***************************************************************************)
\* The arrays a Set<Mutability> can be built from: each tag at most once.
MutabilityArrays ==
    {array \in UNION {[1..n -> Mutability] : n \in 0..Cardinality(Mutability)} :
        \A i, j \in DOMAIN array : i # j => array[i] # array[j]}

\* undefined, the four exported sets, and every freshly built set.
MutabilityInputs ==
    {Undefined}
    \cup {<<set>> : set \in {ImmutableSecret, MutableSecret, ReadOnly, Immutable}}
    \cup {<<NewSet(array)>> : array \in MutabilityArrays}

\* Every calendar-shaped target version.
PaddedTargets ==
    {<<<<y, m, d>>, kind>> : y \in Years, m \in Months, d \in 1..MaxDayOfMonth,
                             kind \in VersionKind}

InitFragments ==
    /\ mtInput \in MutabilityInputs
    /\ serializeMutabilityResult = Pending
    /\ targetVersion \in PaddedTargets
    /\ serializeVersionResult = Pending
    /\ versioned = Versioned(Undefined, Undefined, Undefined)
    /\ inVersionResult = Pending
    /\ MergeIdle
    /\ DefinitionsIdle
    /\ SerializeIdle
    /\ ModuleIdle
    /\ GenerateIdle
    /\ ResourceIdle
    /\ GraphIdle

\* One call serializeMutability(mtInput); the set passed is only read.
SerializeMutability ==
    /\ serializeMutabilityResult = Pending
    /\ serializeMutabilityResult' = Returned(serializeMutability(mtInput))
    /\ UNCHANGED <<mtInput, versionVars, mergeVars, definitionVars, serializeVars,
                   moduleVars, generateVars, versionTextVars, resourceVars,
                   graphVars>>

\* One call serializeVersion(targetVersion).
SerializeVersion ==
    /\ serializeVersionResult = Pending
    /\ serializeVersionResult' = Returned(serializeVersion(targetVersion))
    /\ UNCHANGED <<versionVars, mergeVars, definitionVars, serializeVars, moduleVars,
                   generateVars, mutabilityVars, resourceVars,
                   graphVars>>

NextFragments == SerializeMutability \/ SerializeVersion

SpecFragments == InitFragments /\ [][NextFragments]_vars

\* The position of a tag in the lexicographic order of the three tags.
TagRank(tag) == CASE tag = "create" -> 1 [] tag = "read" -> 2 [] tag = "write" -> 3

\* The tags of a set in lexicographic order.
TagsInOrder(members) ==
    CHOOSE array \in [1..Cardinality(members) -> members] :
        \A i, j \in DOMAIN array : i < j => TagRank(array[i]) < TagRank(array[j])

FragmentKeys == {"x-ms-mutability", "readOnly", "x-ms-secret"}

\* C23 (as the specification states it): the flags depend only on the
\* contents of the set: readOnly is emitted exactly for the sets whose members
\* are {Read}, x-ms-secret exactly for the sets whose members are {Create} or
\* {Create, Write}, for a freshly built set as for the exported constants.
C23_FlagsDependOnContents ==
    (serializeMutabilityResult.state = "returned" /\ mtInput # Undefined) =>
        LET fragment == serializeMutabilityResult.value
            members == Members(mtInput[1])
        IN  /\ hasOwnProperty(fragment, "readOnly") <=> members = {Read}
            /\ hasOwnProperty(fragment, "x-ms-secret")
                   <=> members \in {{Create}, {Create, Write}}

\* C24: undefined gives the empty fragment; a defined set, the empty one
\* included, gives a fragment of at most three keys whose x-ms-mutability
\* lists exactly the set's tags in lexicographic order; the set passed in is
\* the same after the call.
C24_Fragment ==
    serializeMutabilityResult.state = "returned" =>
        LET fragment == serializeMutabilityResult.value
        IN  IF mtInput = Undefined THEN fragment = <<>>
            ELSE /\ hasOwnProperty(fragment, "x-ms-mutability")
                 /\ Get(fragment, "x-ms-mutability") = TagsInOrder(Members(mtInput[1]))
                 /\ Keys(fragment) \subseteq FragmentKeys
                 /\ Len(fragment) <= 3

C24_SortedMutability == []C24_Fragment /\ [][mtInput' = mtInput]_vars

\* A freshly built set whose insertion order is not the lexicographic one has
\* been serialized, and so has the empty set.
C24_Witness ==
    /\ serializeMutabilityResult.state = "returned"
    /\ mtInput = <<NewSet(<<Write, Create, Read>>)>>

C24_WitnessEmpty ==
    /\ serializeMutabilityResult.state = "returned"
    /\ mtInput = <<NewSet(<<>>)>>


(***************************************************************************)
(* Specification of the version text: one call of serializeVersion and one *)
(* call of generateSwagger for the same single target version.             *)
(***************************************************************************)
VersionTextModule ==
    Module("widgets.json", "Widgets", "The widget service.", "Microsoft.Widgets", <<>>)

InitVersionText ==
    /\ targetVersion \in PaddedTargets
    /\ serializeVersionResult = Pending
    /\ versioned = Versioned(Undefined, Undefined, Undefined)
    /\ inVersionResult = Pending
    /\ module = VersionTextModule
    /\ versions = <<targetVersion>>
    /\ commonTrackedProperties = InitialCommonTrackedProperties
    /\ serializeModuleResult = Pending
    /\ position = 1
    /\ directories = {}
    /\ files = {}
    /\ writes = <<>>
    /\ generateSwaggerResult = Pending
    /\ MergeIdle
    /\ DefinitionsIdle
    /\ SerializeIdle
    /\ MutabilityIdle
    /\ ResourceIdle
    /\ GraphIdle

NextVersionText == SerializeVersion \/ GenerateSwaggerVersion \/ GenerateSwaggerReturn

SpecVersionText == InitVersionText /\ [][NextVersionText]_vars

DigitText == <<"0", "1", "2", "3", "4", "5", "6", "7", "8", "9">>

\* The decimal digits of a number below 100, and of one below 10000.
TwoDigits(n) == DigitText[(n \div 10) + 1] \o DigitText[(n % 10) + 1]
FourDigits(n) == TwoDigits(n \div 100) \o TwoDigits(n % 100)

\* year-MM-DD, with -preview for the Preview channel.
PaddedText(version) ==
    FourDigits(version[1][1]) \o "-" \o TwoDigits(version[1][2]) \o "-"
        \o TwoDigits(version[1][3])
        \o (IF version[2] = Preview THEN "-preview" ELSE "")

ChannelDirectory(version) == IF version[2] = Preview THEN "preview" ELSE "stable"

\* C25: serializeVersion returns year-MM-DD with month and day zero-padded to
\* two digits, followed by -preview exactly for the Preview channel, and
\* generateSwagger writes the version's file under preview/<that string> for
\* a Preview target and under stable/<that string> for a GA target.
C25_PaddedVersionDirectory ==
    LET text == PaddedText(targetVersion)
        dir == TargetPath \o "/" \o ChannelDirectory(targetVersion) \o "/" \o text
    IN  /\ serializeVersionResult.state = "returned"
            => serializeVersionResult.value = text
        /\ directories \subseteq {dir}
        /\ \A file \in files : file.path = dir \o "/" \o module.filename
        /\ \A i \in DOMAIN writes : writes[i].path = dir \o "/" \o module.filename
        /\ generateSwaggerResult.state = "returned"
            => directories = {dir} /\ Len(writes) = 1 /\ Cardinality(files) = 1

\* A Preview version with a single-digit month and day has been serialized
\* and its file written.
C25_Witness ==
    /\ serializeVersionResult.state = "returned"
    /\ generateSwaggerResult.state = "returned"
    /\ targetVersion[1][2] < 10
    /\ targetVersion[1][3] < 10
    /\ targetVersion[2] = Preview
    /\ files # {}


(***************************************************************************)
(* Specification of the resource compilers: any sequence of calls of       *)
(* serializeHandler and definitionsFromResource, the module-level object   *)
(* staying as each call leaves it.                                         *)
(***************************************************************************)
Methods == {MethodGet, MethodPut, MethodPatch, MethodDelete}

PathSegments ==
    {<<"widgets", ParameterSegment("widgetName")>>,
     <<"gadgets", ParameterSegment("gadgetName")>>}

\* The paths of at most MaxSegments segments, the empty one included.
PathSuffixes == UNION {[1..n -> PathSegments] : n \in 0..MaxSegments}

CompiledResources ==
    {Resource(path, resourceType, "widget", "widgets", ResourceProperties, AlwaysGA) :
        path \in PathSuffixes, resourceType \in ResourceType}

InitResource ==
    /\ commonTrackedProperties = InitialCommonTrackedProperties
    /\ module = Module("", "", "", "", <<>>)
    /\ serializeModuleResult = Pending
    /\ ResourceIdle
    /\ GenerateIdle
    /\ VersionIdle
    /\ MergeIdle
    /\ DefinitionsIdle
    /\ SerializeIdle
    /\ MutabilityIdle
    /\ VersionTextIdle
    /\ GraphIdle

\* One call serializeHandler(r, m).
SerializeHandler ==
    /\ serializeHandlerResult = Pending
    /\ definitionsFromResourceResult = Pending
    /\ \E r \in CompiledResources, m \in Methods :
          /\ resourceInput' = r
          /\ methodInput' = m
          /\ serializeHandlerResult' = serializeHandler(r, m)
    /\ UNCHANGED <<definitionsFromResourceResult, versionVars, mergeVars, definitionVars,
                   serializeVars, moduleVars, generateVars, mutabilityVars,
                   versionTextVars,
                   graphVars>>

\* One call definitionsFromResource(r, tv).
DefinitionsFromResource ==
    /\ serializeHandlerResult = Pending
    /\ definitionsFromResourceResult = Pending
    /\ \E r \in CompiledResources, tv \in ModuleTargets :
          \E call \in {definitionsFromResource(r, tv, commonTrackedProperties)} :
              /\ resourceInput' = r
              /\ targetVersion' = tv
              /\ definitionsFromResourceResult' = call.outcome
              /\ commonTrackedProperties' = call.commonTrackedProperties
    /\ UNCHANGED <<methodInput, serializeHandlerResult, versioned, inVersionResult,
                   mergeVars, definitionVars, serializeVars, module,
                   serializeModuleResult, generateVars, mutabilityVars, versionTextVars,
                   graphVars>>

\* The caller is done with the outcome of the call; the module-level object
\* stays as the call left it.
ResourceDone ==
    /\ serializeHandlerResult # Pending \/ definitionsFromResourceResult # Pending
    /\ resourceInput' = Undefined
    /\ methodInput' = Undefined
    /\ serializeHandlerResult' = Pending
    /\ definitionsFromResourceResult' = Pending
    /\ targetVersion' = <<<<MinYear, 1, 1>>, GA>>
    /\ UNCHANGED <<versioned, inVersionResult, mergeVars, definitionVars, serializeVars,
                   moduleVars, generateVars, mutabilityVars, versionTextVars,
                   graphVars>>

NextResource == SerializeHandler \/ DefinitionsFromResource \/ ResourceDone

SpecResource == InitResource /\ [][NextResource]_vars

\* The capitalized last path segment of the resource passed in.
InputTypeName ==
    LET last == resourceInput.path[Len(resourceInput.path)][1]
    IN  IF last = "widgets" THEN "Widgets" ELSE "Gadgets"

SubscriptionIdRef ==
    "../../../../../common-types/resource-management/v2/types.json#/parameters/SubscriptionIdParameter"
ResourceGroupNameRef ==
    "../../../../../common-types/resource-management/v2/types.json#/parameters/ResourceGroupNameParameter"
ApiVersionRef ==
    "../../../../../common-types/resource-management/v2/types.json#/parameters/ApiVersionParameter"

StatusCodes(m) ==
    CASE m = MethodGet -> {"200"}
      [] m = MethodPut -> {"200", "201"}
      [] m = MethodPatch -> {"200", "202"}
      [] m = MethodDelete -> {"202", "204"}

\* C22: the response table has exactly the status codes of the method; every
\* Get, Put and Patch response carries a schema $ref to the resource's root
\* definition and no Delete response carries a schema; the long-running
\* annotation is present on Put, Patch and Delete and absent on Get.
C22_ResponseTable ==
    serializeHandlerResult.state = "returned" =>
        LET handler == serializeHandlerResult.value
            responses == Get(handler, "responses")
        IN  /\ Keys(responses) = StatusCodes(methodInput)
            /\ Len(responses) = Cardinality(StatusCodes(methodInput))
            /\ \A i \in DOMAIN responses :
                   IF methodInput = MethodDelete
                   THEN ~hasOwnProperty(responses[i].value, "schema")
                   ELSE /\ hasOwnProperty(responses[i].value, "schema")
                        /\ Get(responses[i].value, "schema")
                               = <<Entry("$ref", "#/definitions/" \o InputTypeName
                                                     \o "Resource")>>
            /\ hasOwnProperty(handler, "x-ms-long-running-operation")
                   <=> methodInput # MethodGet
            /\ methodInput # MethodGet
                   => Get(handler, "x-ms-long-running-operation") = TRUE

\* A Delete and a Patch have been serialized.
C22_Witness ==
    /\ serializeHandlerResult.state = "returned"
    /\ methodInput = MethodDelete

C22_WitnessPatch ==
    /\ serializeHandlerResult.state = "returned"
    /\ methodInput = MethodPatch

\* C29: after any sequence of calls, the root definition a call returns has
\* exactly the properties id, name, type, location and properties for a
\* Tracked resource and exactly the property properties for a Proxy or
\* ReadOnlyProxy one, and its properties entry refers to the Properties
\* definition of the resource of this call.
C29_RootDefinitionProperties ==
    definitionsFromResourceResult.state = "returned" =>
        LET definitions == definitionsFromResourceResult.value
            root == Get(definitions, InputTypeName \o "Resource")
            properties == Get(root, "properties")
        IN  /\ hasOwnProperty(definitions, InputTypeName \o "Resource")
            /\ hasOwnProperty(definitions, InputTypeName \o "Properties")
            /\ Keys(properties) =
                   IF resourceInput.resourceType = Tracked
                   THEN {"id", "name", "type", "location", "properties"}
                   ELSE {"properties"}
            /\ Len(properties) = Cardinality(Keys(properties))
            /\ Get(Get(properties, "properties"), "$ref")
                   = "#/definitions/" \o InputTypeName \o "Properties"

\* A resource of the type gadgets has been compiled while the module-level
\* object still held the reference to the properties of a widgets resource
\* compiled before it.
C29_Witness ==
    /\ definitionsFromResourceResult.state = "returned"
    /\ InputTypeName = "Gadgets"
    /\ resourceInput.resourceType = Proxy
    /\ hasOwnProperty(commonTrackedProperties, "properties")
    /\ Get(commonTrackedProperties, "properties").type = XRefT("WidgetsProperties")


(***************************************************************************)
(* Properties of the compilers that the specifications above reach.        *)
(***************************************************************************)
\* C27 (as the specification states it): no Object is left to be serialized
\* in place: no property type of a returned Definition contains an Object,
\* Arrays of Objects included, so serializeDefinition succeeds on every
\* returned Definition.
C27_NoObjectLeftInPlace ==
    (definitionsResult.state = "returned" /\ ft.kind = "object") =>
        \A i \in DOMAIN definitionsResult.value :
            LET returned == definitionsResult.value[i].value
            IN  /\ \A j \in DOMAIN returned.properties :
                       ~ContainsObject(returned.properties[j].value.type)
                /\ serializeDefinition(returned).state = "returned"

\* C28 (as the specification states it): no call leaves a trace in state
\* that outlives it: the module-level object commonTrackedProperties has
\* exactly the entries id, name, type and location, with their original
\* values, after any sequence of calls.
C28_CommonTrackedPropertiesUntouched ==
    /\ Keys(commonTrackedProperties) = {"id", "name", "type", "location"}
    /\ commonTrackedProperties = InitialCommonTrackedProperties

\* The local references an operation makes: those of its parameter list, of
\* the schema of its body parameter and of the schemas of its responses.
OperationRefs(handler) ==
    LET parameters == Get(handler, "parameters")
        responses == Get(handler, "responses")
    IN  {Get(parameters[i], "$ref") :
            i \in {k \in DOMAIN parameters : hasOwnProperty(parameters[k], "$ref")}}
        \cup {Get(Get(parameters[i], "schema"), "$ref") :
                i \in {k \in DOMAIN parameters : hasOwnProperty(parameters[k], "schema")}}
        \cup {Get(Get(responses[i].value, "schema"), "$ref") :
                i \in {k \in DOMAIN responses : hasOwnProperty(responses[k].value, "schema")}}

\* The names a local reference of the module's operations can end in.
ReferableNames ==
    UNION {{module.resources[i].path[j][2].name : j \in DOMAIN module.resources[i].path} :
              i \in DOMAIN module.resources}
    \cup {kind \o suffix : kind \in {"Widgets", "Gadgets", "widgets", "gadgets"},
                           suffix \in {"Resource", "Properties"}}

\* C30 (as the specification states it): every local reference of an
\* operation of the returned document, #/definitions/X or #/parameters/X,
\* names a key of the document's definitions table, respectively of its
\* parameters table.
C30_ReferencesClosed ==
    serializeModuleResult.state = "returned" =>
        LET paths == Get(serializeModuleResult.value, "paths")
            definitions == Get(serializeModuleResult.value, "definitions")
            parameters == Get(serializeModuleResult.value, "parameters")
        IN  \A i \in DOMAIN paths : \A j \in DOMAIN paths[i].value :
                \A ref \in OperationRefs(paths[i].value[j].value) :
                    \A name \in ReferableNames :
                        /\ ref = "#/definitions/" \o name => hasOwnProperty(definitions, name)
                        /\ ref = "#/parameters/" \o name => hasOwnProperty(parameters, name)

\* The same for the references into the definitions table alone.
DefinitionReferencesClosed ==
    serializeModuleResult.state = "returned" =>
        LET paths == Get(serializeModuleResult.value, "paths")
            definitions == Get(serializeModuleResult.value, "definitions")
        IN  \A i \in DOMAIN paths : \A j \in DOMAIN paths[i].value :
                \A ref \in OperationRefs(paths[i].value[j].value) :
                    \A name \in ReferableNames :
                        ref = "#/definitions/" \o name => hasOwnProperty(definitions, name)


(***************************************************************************)
(* Specification of the definition extractor on a heap of Object types:    *)
(* the type of a property is a scalar or a reference to an Object of the   *)
(* heap, so an Object may be reachable from itself.  The call is followed  *)
(* one loop iteration, one nested call and one return at a time; the       *)
(* engine's call stack holds at most MaxCallDepth activations.             *)
(***************************************************************************)
\* RangeError of the engine when the call stack is exhausted.
StackOverflow == "Maximum call stack size exceeded"

\* The type of a property that is the Object `node` of the heap.
ReferenceTo(node) == [kind |-> "object", reference |-> node]

\* What a property type shows of the Object it refers to.
Dereference(graph, type) ==
    IF type.kind = "object"
    THEN ObjectT(graph[type.reference].definitionName,
                 graph[type.reference].description, <<>>)
    ELSE type

\* A string of every channel, and a reference to an Object of the heap that
\* is of every channel or of the preview channel only.
GraphProperties ==
    {Property("P", StringT, Undefined, Undefined, AlwaysGA)}
    \cup {Property("P", ReferenceTo(node), Undefined, Undefined, lt) :
            node \in 1..MaxNodes, lt \in PropertyLifetimes}

\* The Objects named n with at most `most` properties.
GraphObjects(names, most) ==
    {ObjectT(n, "X", [i \in 1..k |-> Entry(PropertyKeys[i], ps[i])]) :
        n \in names,
        k \in 0..most,
        ps \in [1..most -> GraphProperties]}

\* The heaps of MaxNodes Object types: the first, on which the call is made,
\* is named A and has up to MaxProperties properties, the others have at most
\* one.
TypeGraphs ==
    {[node \in 1..MaxNodes |-> IF node = 1 THEN first ELSE others[node]] :
        first \in GraphObjects({"A"}, MaxProperties),
        others \in [2..MaxNodes -> GraphObjects(DefinitionNames, 1)]}

\* The activation of definitionsFromFieldType on the Object `node`: the
\* position of its for-in loop, and its locals definition and definitions.
Activation(graph, node) ==
    [node |-> node, position |-> 1,
     definition |-> Definition(graph[node].description, <<>>),
     definitions |-> <<>>]

InitGraph ==
    /\ typeGraph \in TypeGraphs
    /\ targetVersion \in DefinitionTargets
    /\ callStack = <<Activation(typeGraph, 1)>>
    /\ extractionResult = Pending
    /\ versioned = Versioned(Undefined, Undefined, Undefined)
    /\ inVersionResult = Pending
    /\ MergeIdle
    /\ DefinitionsIdle
    /\ SerializeIdle
    /\ ModuleIdle
    /\ GenerateIdle
    /\ MutabilityIdle
    /\ VersionTextIdle
    /\ ResourceIdle

\* The innermost activation, its Object type and the entry its loop is at.
Innermost == callStack[Len(callStack)]
InnermostType == typeGraph[Innermost.node]
InLoop == callStack # <<>> /\ Innermost.position <= Len(InnermostType.properties)
LoopEntry == InnermostType.properties[Innermost.position]

otherVars ==
    <<versionVars, mergeVars, definitionVars, serializeVars, moduleVars, generateVars,
      mutabilityVars, versionTextVars, resourceVars>>

\* The property is not in the target version: continue.
SkipProperty ==
    /\ InLoop
    /\ ~inVersion(LoopEntry.value, targetVersion)
    /\ callStack' = [callStack EXCEPT ![Len(callStack)].position = @ + 1]
    /\ UNCHANGED <<typeGraph, extractionResult, otherVars>>

\* The property's type is no Object: it is added as it is.
CopyProperty ==
    /\ InLoop
    /\ inVersion(LoopEntry.value, targetVersion)
    /\ LoopEntry.value.type.kind # "object"
    /\ callStack' = [callStack EXCEPT
           ![Len(callStack)].definition.properties =
               Put(@, LoopEntry.key, definitionProperty(LoopEntry.value)),
           ![Len(callStack)].position = @ + 1]
    /\ UNCHANGED <<typeGraph, extractionResult, otherVars>>

\* The property's type is an Object: the property is replaced by a
\* reference and definitionsFromFieldType is called on the Object.
CallOnProperty ==
    /\ InLoop
    /\ inVersion(LoopEntry.value, targetVersion)
    /\ LoopEntry.value.type.kind = "object"
    /\ Len(callStack) < MaxCallDepth
    /\ \E literal \in {definitionProperty(
                          [LoopEntry.value EXCEPT
                              !.type = Dereference(typeGraph, LoopEntry.value.type)])} :
          callStack' =
              Append([callStack EXCEPT ![Len(callStack)].definition.properties =
                          Put(@, LoopEntry.key, literal)],
                     Activation(typeGraph, LoopEntry.value.type.reference))
    /\ UNCHANGED <<typeGraph, extractionResult, otherVars>>

\* The same with the call stack exhausted: the engine throws RangeError,
\* which no activation catches.
CallOverflows ==
    /\ InLoop
    /\ inVersion(LoopEntry.value, targetVersion)
    /\ LoopEntry.value.type.kind = "object"
    /\ Len(callStack) = MaxCallDepth
    /\ callStack' = <<>>
    /\ extractionResult' = Thrown(StackOverflow)
    /\ UNCHANGED <<typeGraph, otherVars>>

\* The dictionary the innermost activation returns after its loop.
ReturnedDefinitions ==
    Put(Innermost.definitions, InnermostType.definitionName, Innermost.definition)

\* The outermost activation returns.
ReturnResult ==
    /\ Len(callStack) = 1
    /\ ~InLoop
    /\ callStack' = <<>>
    /\ extractionResult' = Returned(ReturnedDefinitions)
    /\ UNCHANGED <<typeGraph, otherVars>>

\* A nested activation returns; its caller merges the dictionary into its
\* own by concatRecords and goes on with its loop, or concatRecords throws.
ReturnToCaller ==
    /\ Len(callStack) > 1
    /\ ~InLoop
    /\ \E merged \in {concatRecords(<<callStack[Len(callStack) - 1].definitions,
                                      ReturnedDefinitions>>)} :
          IF merged.state = "thrown"
          THEN /\ callStack' = <<>>
               /\ extractionResult' = merged
          ELSE /\ callStack' =
                      [SubSeq(callStack, 1, Len(callStack) - 1) EXCEPT
                          ![Len(callStack) - 1].definitions = merged.value,
                          ![Len(callStack) - 1].position = @ + 1]
               /\ UNCHANGED extractionResult
    /\ UNCHANGED <<typeGraph, otherVars>>

NextGraph ==
    \/ SkipProperty
    \/ CopyProperty
    \/ CallOnProperty
    \/ CallOverflows
    \/ ReturnResult
    \/ ReturnToCaller

\* The call runs on one thread: its next step is always taken.
SpecGraph == InitGraph /\ [][NextGraph]_vars /\ WF_vars(NextGraph)

\* The call threw the error of concatRecords.
MergeError ==
    extractionResult.state = "thrown" /\ extractionResult.key \in DefinitionNames

\* C26 (as the specification states it): the extractor terminates on every
\* finite type graph, self-referential ones included: no Object type is
\* entered again while its own activation is still on the call stack, and
\* the call ends by returning a dictionary or by raising a merge error.
C26_RecursionBounded ==
    /\ \A i, j \in DOMAIN callStack : callStack[i].node = callStack[j].node => i = j
    /\ extractionResult # Pending => extractionResult.state = "returned" \/ MergeError

\* The same as a property of the whole run: the call eventually returns a
\* dictionary or raises a merge error.
EventuallyDictionaryOrMergeError ==
    <>(extractionResult.state = "returned" \/ MergeError)

\* Every visible reference of the heap leads to a later Object, so that no
\* Object is reachable from itself.
Acyclic ==
    \A node \in 1..MaxNodes : \A i \in DOMAIN typeGraph[node].properties :
        LET property == typeGraph[node].properties[i].value
        IN  (property.type.kind = "object" /\ inVersion(property, targetVersion))
                => property.type.reference > node

(***************************************************************************)
(* Specification of the temporal model: one call of inVersion.             *)
(***************************************************************************)
InitVersion ==
    /\ versioned \in {Versioned(p, g, d) :
                        p \in IntroDates \cup {Undefined},
                        g \in IntroDates \cup {Undefined},
                        d \in DeprecationDates \cup {Undefined}}
    /\ targetVersion \in TargetDates \X VersionKind
    /\ inVersionResult = Pending
    /\ MergeIdle
    /\ DefinitionsIdle
    /\ SerializeIdle
    /\ ModuleIdle
    /\ GenerateIdle
    /\ MutabilityIdle
    /\ VersionTextIdle
    /\ ResourceIdle
    /\ GraphIdle

InVersion ==
    /\ inVersionResult = Pending
    /\ inVersionResult' = Returned(inVersion(versioned, targetVersion))
    /\ UNCHANGED <<versioned, targetVersion, mergeVars, definitionVars, serializeVars,
                   moduleVars, generateVars,
                   mutabilityVars,
                   versionTextVars,
                   resourceVars,
                   graphVars>>

NextVersion == InVersion

SpecVersion == InitVersion /\ [][NextVersion]_vars

(***************************************************************************)
(* Properties of the temporal model.                                       *)
(***************************************************************************)
\* The lexicographic order on (year, month, day), stated through the digits
\* of the date read as one number (months and days are below 100).
DateNumber(v) == v[1] * 10000 + v[2] * 100 + v[3]
NotLater(a, b) == DateNumber(a) <= DateNumber(b)

\* Visibility by the introduction dates alone.
VisibleByIntroduction(it, tv) ==
    LET gaReached == it.gaVersion # Undefined /\ NotLater(it.gaVersion, tv[1])
        previewReached == it.previewVersion # Undefined /\ NotLater(it.previewVersion, tv[1])
    IN  IF tv[2] = Preview THEN previewReached \/ gaReached ELSE gaReached

\* The calendar date six months after a date: same day, month + 6, rolling
\* over into the next year after month 12.
PlusSixMonths(v) ==
    IF v[2] + 6 > 12 THEN <<v[1] + 1, v[2] - 6, v[3]>> ELSE <<v[1], v[2] + 6, v[3]>>
PlusThreeYears(v) == <<v[1] + 3, v[2], v[3]>>

InVersionReturned == inVersionResult.state = "returned"

\* C1: without a deprecatedOn date, inVersion is true under a Preview target
\* iff previewVersion or gaVersion is set and not later than the target date,
\* and under a GA target iff gaVersion is set and not later than the target
\* date; a date equal to the target date counts as not later.
C1_VisibleByDates ==
    (InVersionReturned /\ versioned.deprecatedOn = Undefined)
        => inVersionResult.value = VisibleByIntroduction(versioned, targetVersion)

C1_Witness ==
    /\ InVersionReturned
    /\ versioned.deprecatedOn = Undefined
    /\ versioned.gaVersion = Undefined
    /\ versioned.previewVersion = targetVersion[1]
    /\ targetVersion[2] = Preview
    /\ inVersionResult.value = TRUE

\* C2 as stated: whenever gaVersion is set and not later than the target
\* date, inVersion is true, whatever previewVersion and deprecatedOn are.
C2_GaReachedAlwaysVisible ==
    (InVersionReturned /\ versioned.gaVersion # Undefined
        /\ NotLater(versioned.gaVersion, targetVersion[1]))
        => inVersionResult.value = TRUE

\* C2 amended: whenever gaVersion is set and not later than the target date,
\* and deprecatedOn is unset or the target date is before deprecatedOn plus
\* three years, inVersion is true under both channels.
C2_GaReachedVisibleUntilRemoval ==
    (InVersionReturned /\ versioned.gaVersion # Undefined
        /\ NotLater(versioned.gaVersion, targetVersion[1])
        /\ (versioned.deprecatedOn = Undefined
            \/ ~NotLater(PlusThreeYears(versioned.deprecatedOn), targetVersion[1])))
        => inVersionResult.value = TRUE

C2_Witness ==
    /\ InVersionReturned
    /\ versioned.gaVersion # Undefined
    /\ versioned.previewVersion = Undefined
    /\ versioned.deprecatedOn # Undefined
    /\ NotLater(versioned.gaVersion, targetVersion[1])
    /\ NotLater(PlusSixMonths(versioned.deprecatedOn), targetVersion[1])
    /\ ~NotLater(PlusThreeYears(versioned.deprecatedOn), targetVersion[1])
    /\ targetVersion[2] = Preview
    /\ inVersionResult.value = TRUE

\* C3: an entity with only a previewVersion and deprecatedOn = D is, under a
\* Preview target at or after previewVersion, visible for every target date
\* strictly before D + 6 calendar months and not visible from that date on.
C3_PreviewRemovedAfterSixMonths ==
    (InVersionReturned /\ versioned.gaVersion = Undefined
        /\ versioned.previewVersion # Undefined
        /\ versioned.deprecatedOn # Undefined
        /\ targetVersion[2] = Preview
        /\ NotLater(versioned.previewVersion, targetVersion[1]))
        => inVersionResult.value =
               ~NotLater(PlusSixMonths(versioned.deprecatedOn), targetVersion[1])

\* C4: an entity with a gaVersion and deprecatedOn = (y, m, d) is not visible
\* under either channel for target dates at or after (y+3, m, d); before that
\* date it is visible exactly when the same entity without deprecatedOn is;
\* an entity without deprecatedOn has no removal date.
C4_GaRemovedAfterThreeYears ==
    /\ (InVersionReturned /\ versioned.gaVersion # Undefined
            /\ versioned.deprecatedOn # Undefined)
        => inVersionResult.value =
             IF NotLater(PlusThreeYears(versioned.deprecatedOn), targetVersion[1])
             THEN FALSE
             ELSE VisibleByIntroduction(versioned, targetVersion)
    /\ (InVersionReturned /\ versioned.deprecatedOn = Undefined)
        => removalDate(versioned) = Undefined

C4_Witness ==
    /\ InVersionReturned
    /\ versioned.gaVersion # Undefined
    /\ versioned.deprecatedOn # Undefined
    /\ NotLater(versioned.gaVersion, targetVersion[1])
    /\ targetVersion[1] = PlusThreeYears(versioned.deprecatedOn)
    /\ inVersionResult.value = FALSE

====
